---------------------------- MODULE Spec2Model ----------------------------
(***************************************************************************)
(* Competitive-balance engine of src/src/6_compet.py: one season analyser  *)
(* (OptimizedCompetitiveBalanceAnalyzer) with its position-lock            *)
(* calculator, strength estimators, null model and turning-point detector. *)
(*                                                                         *)
(* Teams are numbered 1..N in the order of the sorted roster, real numbers *)
(* are exact rationals <<numerator, denominator>>, and an Optional value   *)
(* is <<>> (None) or <<v>>.                                                *)
(***************************************************************************)
EXTENDS Integers, Sequences, FiniteSets, TLC

VARIABLES
    pc,                          \* position of the season pipeline
    season_games,                \* the season's match table, sorted by (rodada, home)
    rankings_df,                 \* Optional rankings table
    use_dynamic_strengths,       \* constructor flag
    current_season_weight,       \* constructor parameter (rational)
    num_simulations,             \* constructor parameter S
    teams, num_teams, total_rounds,
    team_strengths, has_ranking_data, strength_calculation_method,
    strength_variance,
    points_progression, position_definitions,
    observed_imbalance_curve, simulation_curves, envelope_upper_bound,
    ph, pd, pa,
    sim,                         \* index of the next null-model trial
    result,                      \* Optional AnalysisResult
    round_data,                  \* Optional per-round series written for the season
    processing_mode,             \* "sequential", "parallel", "batch"; "direct" without orchestrator
    df_jogos,                    \* the match table: its columns and its seasons by id
    output_dir,                  \* whether an output directory was given
    unwritable,                  \* ids whose round-data file cannot be written
    resume,                      \* the resume argument of process_in_batches
    batch_size,                  \* seasons per batch / chunk
    orch_pc,                     \* position of the orchestrator
    championship_ids,            \* the ids the run goes through, in order
    batch_idx,                   \* start of the current batch / chunk (0-based)
    handled,                     \* ids whose try block has ended in this run
    batch_results,               \* results of the current batch
    results,                     \* the list the run returns
    completed_ids,               \* ids recorded as completed
    checkpoint_file,             \* Optional content of processing_checkpoint.pkl
    checkpoint_data,             \* Optional checkpoint loaded when the run resumed
    champ_id,                    \* id under analysis, 0 between seasons
    skipped,                     \* ids logged as failed by an except clause
    load_failed,                 \* the checkpoint-load warning was logged
    kills,                       \* interruptions of the process so far
    season_df,                   \* the match table handed to a round-numbering tool
    assigned_rounds,             \* the round numbers the tool has assigned so far
    current_round,               \* the tool's round counter
    sched_pc,                    \* position of the round-numbering tool
    future_to_champ,             \* state of the future submitted for each id
    max_workers,                 \* size of the worker pool
    last_call                    \* Optional last call of a function on its own, with what it returned

vars == <<pc, season_games, rankings_df, use_dynamic_strengths,
          current_season_weight, num_simulations, teams, num_teams,
          total_rounds, team_strengths, has_ranking_data,
          strength_calculation_method, strength_variance, points_progression,
          position_definitions, observed_imbalance_curve, simulation_curves,
          envelope_upper_bound, ph, pd, pa, sim, result, round_data,
          processing_mode, df_jogos, output_dir, unwritable, resume,
          batch_size, orch_pc, championship_ids, batch_idx, handled,
          batch_results, results, completed_ids, checkpoint_file,
          checkpoint_data, champ_id, skipped, load_failed, kills,
          season_df, assigned_rounds, current_round, sched_pc, future_to_champ,
          max_workers, last_call>>

----------------------------------------------------------------------------
(* Optional values and exact rational arithmetic                           *)

None == <<>>

Some(x) == <<x>>

\* A local binding "x = v; F(x)": v is evaluated once.
Let(v, F(_)) == CHOOSE r \in {F(x) : x \in {v}} : TRUE

Abs(n) == IF n < 0 THEN -n ELSE n

RECURSIVE GCD(_, _)
GCD(a, b) == IF b = 0 THEN a ELSE GCD(b, a % b)

Rat(n, d) ==
    LET g == GCD(Abs(n), Abs(d))
        s == IF d < 0 THEN -1 ELSE 1
    IN  <<(s * n) \div g, (s * d) \div g>>

RInt(n) == <<n, 1>>

RAdd(a, b) ==
    LET g == GCD(a[2], b[2])
    IN  Rat(a[1] * (b[2] \div g) + b[1] * (a[2] \div g), (a[2] \div g) * b[2])

RNeg(a) == <<-a[1], a[2]>>

RSub(a, b) == RAdd(a, RNeg(b))

RMul(a, b) ==
    LET x == Rat(a[1], b[2])
        y == Rat(b[1], a[2])
    IN  <<x[1] * y[1], x[2] * y[2]>>

RDiv(a, b) == RMul(a, Rat(b[2], b[1]))

RLess(a, b) ==
    LET g == GCD(a[2], b[2])
    IN  a[1] * (b[2] \div g) < b[1] * (a[2] \div g)

RLeq(a, b) == ~RLess(b, a)

RMaxOf(a, b) == IF RLess(a, b) THEN b ELSE a

RMinOf(a, b) == IF RLess(b, a) THEN b ELSE a

RECURSIVE RSum(_)
RSum(s) == IF s = <<>> THEN RInt(0) ELSE RAdd(s[1], RSum(Tail(s)))

RECURSIVE RMaxSeq(_)
RMaxSeq(s) == IF Len(s) = 1 THEN s[1] ELSE RMaxOf(s[1], RMaxSeq(Tail(s)))

RECURSIVE RMinSeq(_)
RMinSeq(s) == IF Len(s) = 1 THEN s[1] ELSE RMinOf(s[1], RMinSeq(Tail(s)))

RMean(s) == RDiv(RSum(s), RInt(Len(s)))

RECURSIVE SumSeq(_)
SumSeq(s) == IF s = <<>> THEN 0 ELSE s[1] + SumSeq(Tail(s))

RECURSIVE SortedSeq(_)
SortedSeq(S) ==
    IF S = {} THEN <<>>
    ELSE LET m == CHOOSE x \in S : \A y \in S : x <= y
         IN  <<m>> \o SortedSeq(S \ {m})

SeqRange(s) == {s[i] : i \in 1..Len(s)}

\* numpy.var(x, ddof=0)
Var(x) ==
    LET n  == Len(x)
        s1 == SumSeq(x)
        s2 == SumSeq([i \in 1..n |-> x[i] * x[i]])
    IN  Rat(n * s2 - s1 * s1, n * n)

----------------------------------------------------------------------------
(* The match table                                                          *)

Game(r, h, a, gh, ga) ==
    [rodada |-> r, home |-> h, away |-> a, goal_home |-> gh, goal_away |-> ga]

\* Rounds of a round-robin over the roster 1..n, each round sorted by home.
Schedule(n) ==
    CASE n = 2 -> << <<<<1, 2>>>>, <<<<2, 1>>>>, <<<<1, 2>>>>, <<<<2, 1>>>>,
                     <<<<1, 2>>>> >>
      [] n = 3 -> << <<<<1, 2>>>>, <<<<2, 3>>>>, <<<<3, 1>>>>, <<<<2, 1>>>>,
                     <<<<3, 2>>>> >>
      [] n = 4 -> << <<<<1, 2>>, <<3, 4>>>>, <<<<1, 3>>, <<4, 2>>>>,
                     <<<<1, 4>>, <<2, 3>>>>, <<<<2, 1>>, <<4, 3>>>>,
                     <<<<2, 4>>, <<3, 1>>>> >>
      [] n = 5 -> << <<<<1, 2>>, <<3, 4>>>>, <<<<1, 3>>, <<5, 2>>>>,
                     <<<<1, 4>>, <<3, 5>>>>, <<<<1, 5>>, <<2, 4>>>>,
                     <<<<2, 3>>, <<4, 5>>>> >>

\* The pairings of rounds 1..r as one sequence of <<round, home, away>>.
RECURSIVE Fixtures(_, _)
Fixtures(n, r) ==
    IF r = 0 THEN <<>>
    ELSE Fixtures(n, r - 1) \o
         [k \in 1..Len(Schedule(n)[r]) |->
             <<r, Schedule(n)[r][k][1], Schedule(n)[r][k][2]>>]

\* Every season over the pairings fx whose scorelines come from scores.
SeasonsOver(fx, scores) ==
    {[k \in 1..Len(fx) |-> Game(fx[k][1], fx[k][2], fx[k][3], sc[k][1], sc[k][2])] :
        sc \in [1..Len(fx) -> scores]}

----------------------------------------------------------------------------
(* OptimizedCompetitiveBalanceAnalyzer._initialize_championship_info       *)

RosterOf(games) ==
    SortedSeq({games[k].home : k \in 1..Len(games)} \cup
              {games[k].away : k \in 1..Len(games)})

RECURSIVE MaxRodada(_)
MaxRodada(games) ==
    IF Len(games) = 1 THEN games[1].rodada
    ELSE LET m == MaxRodada(Tail(games))
         IN  IF games[1].rodada > m THEN games[1].rodada ELSE m

----------------------------------------------------------------------------
(* PositionDefinitionCalculator                                             *)

\* The 3/1/0 rule: what one game adds to a team's points.
GamePoints(game, team) ==
    IF game.goal_home > game.goal_away
        THEN (IF game.home = team THEN 3 ELSE 0)
    ELSE IF game.goal_home < game.goal_away
        THEN (IF game.away = team THEN 3 ELSE 0)
    ELSE (IF game.home = team \/ game.away = team THEN 1 ELSE 0)

RoundPoints(games, team, round_num) ==
    SumSeq([k \in 1..Len(games) |->
               IF games[k].rodada = round_num THEN GamePoints(games[k], team)
               ELSE 0])

RECURSIVE ProgressionOf(_, _, _)
ProgressionOf(games, team, round_num) ==
    IF round_num = 0 THEN <<0>>
    ELSE LET prev == ProgressionOf(games, team, round_num - 1)
         IN  Append(prev, prev[Len(prev)] + RoundPoints(games, team, round_num))

\* _calculate_points_progression: team -> [points after round 0, 1, .., R]
CalculatePointsProgression(games, roster, rounds) ==
    [t \in SeqRange(roster) |-> ProgressionOf(games, t, rounds)]

\* _get_standings_at_round: <<team, points>> by points descending; sorted()
\* is stable, so equal points keep the order of the roster.
GetStandingsAtRound(pp, roster, rounds, round_num) ==
    IF round_num < 1 \/ round_num > rounds THEN <<>>
    ELSE LET n      == Len(roster)
             pts(i) == pp[roster[i]][round_num + 1]
             rank(i) == 1 + Cardinality({j \in 1..n :
                                \/ pts(j) > pts(i)
                                \/ pts(j) = pts(i) /\ j < i})
         IN  [k \in 1..n |->
                LET i == CHOOSE i \in 1..n : rank(i) = k
                IN  <<roster[i], pts(i)>>]

\* Variant: the comparisons of _is_position_defined count the round being
\* examined among the rounds still to play.
IsPositionDefinedCountingCurrent(pp, roster, rounds, position, round_num) ==
    IF round_num >= rounds THEN TRUE
    ELSE LET standings == GetStandingsAtRound(pp, roster, rounds, round_num)
         IN  IF position > Len(standings) THEN FALSE
             ELSE LET current_points      == standings[position][2]
                      remaining_rounds    == rounds - round_num + 1
                      max_possible_points == remaining_rounds * 3
                  IN  /\ \A i \in (position + 1)..Len(standings) :
                            ~(standings[i][2] + max_possible_points > current_points)
                      /\ \A i \in 1..(position - 1) :
                            ~(current_points + max_possible_points > standings[i][2])

IsPositionDefined(pp, roster, rounds, position, round_num) ==
    IF round_num >= rounds THEN TRUE
    ELSE LET standings == GetStandingsAtRound(pp, roster, rounds, round_num)
         IN  IF position > Len(standings) THEN FALSE
             ELSE LET current_points      == standings[position][2]
                      remaining_rounds    == rounds - round_num
                      max_possible_points == remaining_rounds * 3
                  IN  /\ \A i \in (position + 1)..Len(standings) :
                            ~(standings[i][2] + max_possible_points > current_points)
                      /\ \A i \in 1..(position - 1) :
                            ~(current_points + max_possible_points > standings[i][2])

\* The loop "for round_num in range(1, total_rounds + 1)" with its break:
\* the first round from round_num on at which the slot is defined.
RECURSIVE FirstDefinedFrom(_, _, _, _, _)
FirstDefinedFrom(pp, roster, rounds, position, round_num) ==
    IF round_num > rounds THEN None
    ELSE IF IsPositionDefined(pp, roster, rounds, position, round_num)
        THEN Some(round_num)
        ELSE FirstDefinedFrom(pp, roster, rounds, position, round_num + 1)

\* Variant: the loop starts at the second round, "range(2, total_rounds + 1)".
FirstDefinedRoundFromSecond(pp, roster, rounds, position) ==
    FirstDefinedFrom(pp, roster, rounds, position, 2)

FirstDefinedRound(pp, roster, rounds, position) ==
    FirstDefinedFrom(pp, roster, rounds, position, 1)

TopPositions(roster) == {pos \in 1..4 : pos <= Len(roster)}

LastPositions(roster) ==
    (IF Len(roster) - 3 > 1 THEN Len(roster) - 3 ELSE 1)..Len(roster)

CalculatePositionDefinitions(pp, roster, rounds) ==
    LET first(pos) == IF pos \in TopPositions(roster)
                         THEN FirstDefinedRound(pp, roster, rounds, pos)
                         ELSE None
        found == {pos \in LastPositions(roster) :
                     FirstDefinedRound(pp, roster, rounds, pos) # None}
    IN  [champion_round |-> first(1),
         second_round   |-> first(2),
         third_round    |-> first(3),
         fourth_round   |-> first(4),
         relegation_rounds |->
             [pos \in found |-> FirstDefinedRound(pp, roster, rounds, pos)[1]]]

----------------------------------------------------------------------------
(* DynamicStrengthCalculator                                                *)

EmptyDict == <<>>

Reverse(s) == [i \in 1..Len(s) |-> s[Len(s) + 1 - i]]

Head_(s, n) == IF Len(s) <= n THEN s ELSE SubSeq(s, 1, n)

Involves(game, team) == game.home = team \/ game.away = team

\* numpy.linspace(1.0, 0.7, n)[idx], idx counted from 0
LinspaceWeight(idx, n) ==
    IF n = 1 THEN RInt(1) ELSE Rat(10 * (n - 1) - 3 * idx, 10 * (n - 1))

Clamp01(x) == RMaxOf(RInt(0), RMinOf(RInt(1), x))

CalculateTeamDynamicStrength(games, team, lookback_games) ==
    LET team_games   == Reverse(SelectSeq(games, LAMBDA g : Involves(g, team)))
        recent_games == Head_(team_games, lookback_games)
        n            == Len(recent_games)
        w(k)         == LinspaceWeight(k - 1, n)
        is_home(k)   == recent_games[k].home = team
        gf(k)        == IF is_home(k) THEN recent_games[k].goal_home
                        ELSE recent_games[k].goal_away
        ga(k)        == IF is_home(k) THEN recent_games[k].goal_away
                        ELSE recent_games[k].goal_home
        adv(k)       == IF is_home(k) THEN Rat(11, 10) ELSE Rat(9, 10)
        points(k)    == IF gf(k) > ga(k) THEN 3 ELSE IF gf(k) = ga(k) THEN 1 ELSE 0
        total_points == RSum([k \in 1..n |-> RMul(RInt(points(k)), w(k))])
        total_goals_for ==
            RSum([k \in 1..n |-> RMul(RMul(RInt(gf(k)), w(k)), adv(k))])
        total_goals_against == RSum([k \in 1..n |-> RMul(RInt(ga(k)), w(k))])
        games_played == RInt(n)
        avg_points   == RDiv(total_points, games_played)
        avg_goal_difference ==
            RDiv(RSub(total_goals_for, total_goals_against), games_played)
        offensive_efficiency == RDiv(total_goals_for, games_played)
        defensive_efficiency ==
            RDiv(RInt(1), RAdd(RInt(1), RDiv(total_goals_against, games_played)))
        strength ==
            RAdd(RAdd(RMul(Rat(2, 5), RDiv(avg_points, RInt(3))),
                      RMul(Rat(1, 5), RDiv(RAdd(avg_goal_difference, RInt(3)), RInt(6)))),
                 RAdd(RDiv(RMul(Rat(1, 5), offensive_efficiency), RInt(3)),
                      RMul(Rat(1, 5), defensive_efficiency)))
    IN  IF n = 0 THEN RInt(0) ELSE Clamp01(strength)

DictValues(d, roster) ==
    LET ks == SelectSeq(roster, LAMBDA t : t \in DOMAIN d)
    IN  [i \in 1..Len(ks) |-> d[ks[i]]]

\* Variant: min-max scaling onto [0, 1], without the 0.1 + 0.8 * x step.
NormalizeStrengthsUnit(strengths, roster) ==
    IF DOMAIN strengths = {} THEN strengths
    ELSE Let(DictValues(strengths, roster), LAMBDA values :
         Let(RMinSeq(values), LAMBDA min_val :
         Let(RMaxSeq(values), LAMBDA max_val :
             IF max_val = min_val
                THEN [t \in DOMAIN strengths |-> Rat(1, 2)]
                ELSE [t \in DOMAIN strengths |->
                        RDiv(RSub(strengths[t], min_val),
                             RSub(max_val, min_val))])))

\* Min-max scaling onto [0.1, 0.9]; 0.5 for every team when all are equal.
NormalizeStrengths(strengths, roster) ==
    IF DOMAIN strengths = {} THEN strengths
    ELSE Let(DictValues(strengths, roster), LAMBDA values :
         Let(RMinSeq(values), LAMBDA min_val :
         Let(RMaxSeq(values), LAMBDA max_val :
             IF max_val = min_val
                THEN [t \in DOMAIN strengths |-> Rat(1, 2)]
                ELSE [t \in DOMAIN strengths |->
                        RAdd(Rat(1, 10),
                             RMul(Rat(4, 5),
                                  RDiv(RSub(strengths[t], min_val),
                                       RSub(max_val, min_val))))])))

CalculateDynamicStrengths(games, roster) ==
    LET N == Len(roster)
        X == (N - 1) * 2
    IN  IF games = <<>> THEN [t \in SeqRange(roster) |-> Rat(1, 2)]
        ELSE Let([i \in 1..N |-> CalculateTeamDynamicStrength(games, roster[i], X)],
                 LAMBDA computed :
                     NormalizeStrengths(
                         [t \in SeqRange(roster) |->
                             computed[CHOOSE i \in 1..N : roster[i] = t]],
                         roster))

----------------------------------------------------------------------------
(* RankingProcessor                                                         *)
(* A rankings row is [season, Team, pos, Pts]: season is "prev" or "curr"  *)
(* relative to the analysed season, Team is <<"exact", t>> (the roster's   *)
(* spelling of team t), <<"similar", t>> (a spelling _create_team_mapping  *)
(* matches to t) or <<"other", 0>> (a club outside the roster), pos is the *)
(* '#' column and Pts is Optional.                                         *)

RankingRow(season, team, pos, pts) ==
    [season |-> season, Team |-> team, pos |-> pos, Pts |-> pts]

\* load_rankings: the rows of one season, None when there are none
LoadRankings(df, season) ==
    IF df = None THEN None
    ELSE LET filtered == SelectSeq(df[1], LAMBDA row : row.season = season)
         IN  IF filtered = <<>> THEN None ELSE Some(filtered)

\* team_mapping.get(team_name, team_name): 0 stands for a name off the roster
MappedName(name, roster) ==
    IF name[1] \in {"exact", "similar"} /\ name[2] \in SeqRange(roster)
        THEN name[2]
        ELSE 0

MaxInt(S) == CHOOSE x \in S : \A y \in S : y <= x

MinInt(S) == CHOOSE x \in S : \A y \in S : x <= y

CalculateTeamStrengths(rk, roster) ==
    LET max_position == Len(rk)
        pts_set == {rk[k].Pts[1] : k \in {j \in 1..Len(rk) : rk[j].Pts # None}}
        row_strength(k) ==
            LET position_strength == Rat(max_position - rk[k].pos, max_position)
            IN  IF rk[k].Pts # None /\ MaxInt(pts_set) > MinInt(pts_set)
                    THEN RAdd(RMul(Rat(3, 5), position_strength),
                              RMul(Rat(2, 5),
                                   Rat(rk[k].Pts[1] - MinInt(pts_set),
                                       MaxInt(pts_set) - MinInt(pts_set))))
                    ELSE position_strength
        rows_of(t) == {k \in 1..Len(rk) : MappedName(rk[k].Team, roster) = t}
        raw == [t \in SeqRange(roster) |->
                   IF rows_of(t) = {} THEN Rat(1, 10)
                   ELSE row_strength(MaxInt(rows_of(t)))]
    IN  Let(DictValues(raw, roster), LAMBDA raw_values :
        Let(RMean(raw_values), LAMBDA current_mean :
        Let([i \in 1..Len(roster) |->
                RAdd(RSub(raw_values[i], current_mean), Rat(1, 2))],
            LAMBDA shifted :
        Let(RMinSeq(shifted), LAMBDA min_val :
        Let(RMaxSeq(shifted), LAMBDA max_val :
            [t \in SeqRange(roster) |->
                Let(shifted[CHOOSE i \in 1..Len(roster) : roster[i] = t],
                    LAMBDA strength :
                        IF RLess(min_val, max_val)
                            THEN RAdd(Rat(1, 10),
                                      RMul(Rat(4, 5),
                                           RDiv(RSub(strength, min_val),
                                                RSub(max_val, min_val))))
                            ELSE strength)])))))

\* The float numpy.var(strengths) is reported and never read by a decision:
\* it is kept as a token that tells an assigned attribute from an unset one.
StrengthVariance(values) == IF values = <<>> THEN "nan" ELSE "var"

DictGet(d, k, default) == IF k \in DOMAIN d THEN d[k] ELSE default

\* OptimizedCompetitiveBalanceAnalyzer._load_team_strengths, as the values
\* it leaves in the analyser; strength_variance stays unset (None) on the
\* paths that return before assigning it.
LoadTeamStrengths(games, roster, rankings, dynamic, w_curr) ==
    LET nodata == [team_strengths |-> EmptyDict, has_ranking_data |-> FALSE,
                   strength_calculation_method |-> "static",
                   strength_variance |-> None]
        w_prev == RSub(RInt(1), w_curr)
        Estimated(rk) == IF rk # None THEN CalculateTeamStrengths(rk[1], roster)
                         ELSE EmptyDict
        Combined(strengths_prev, strengths_curr) ==
            [i \in 1..Len(roster) |->
                LET s_prev == DictGet(strengths_prev, roster[i], Rat(1, 2))
                    s_curr == DictGet(strengths_curr, roster[i], Rat(1, 2))
                IN  IF DOMAIN strengths_prev = {} THEN s_curr
                    ELSE IF DOMAIN strengths_curr = {} THEN s_prev
                    ELSE RAdd(RMul(w_prev, s_prev), RMul(w_curr, s_curr))]
        Final(combined, min_val, max_val) ==
            [t \in SeqRange(roster) |->
                Let(combined[CHOOSE i \in 1..Len(roster) : roster[i] = t],
                    LAMBDA strength :
                        IF RLess(min_val, max_val)
                            THEN RAdd(Rat(1, 10),
                                      RMul(Rat(4, 5),
                                           RDiv(RSub(strength, min_val),
                                                RSub(max_val, min_val))))
                            ELSE strength)]
    IN  IF dynamic THEN
            Let(CalculateDynamicStrengths(games, roster), LAMBDA st :
                [team_strengths |-> st, has_ranking_data |-> TRUE,
                 strength_calculation_method |-> "dynamic",
                 strength_variance |-> Some(StrengthVariance(DictValues(st, roster)))])
        ELSE IF rankings = None THEN nodata
        ELSE
            Let(Estimated(LoadRankings(rankings, "prev")), LAMBDA strengths_prev :
            Let(Estimated(LoadRankings(rankings, "curr")), LAMBDA strengths_curr :
                IF DOMAIN strengths_prev = {} /\ DOMAIN strengths_curr = {} THEN nodata
                ELSE
                    Let(Combined(strengths_prev, strengths_curr), LAMBDA combined :
                    Let(Final(combined, RMinSeq(combined), RMaxSeq(combined)),
                        LAMBDA final :
                            [team_strengths |-> final, has_ranking_data |-> TRUE,
                             strength_calculation_method |-> "static",
                             strength_variance |->
                                 Some(StrengthVariance(DictValues(final, roster)))]))))

----------------------------------------------------------------------------
(* Imbalance curve                                                          *)

\* Variant: a draw credits the home team only.
PointsMatrixDrawToHome(games, roster, rounds) ==
    [i \in 1..Len(roster) |->
        [r \in 1..rounds |->
            SumSeq([k \in 1..Len(games) |->
                IF games[k].rodada # r THEN 0
                ELSE IF games[k].goal_home > games[k].goal_away
                    THEN (IF games[k].home = roster[i] THEN 3 ELSE 0)
                ELSE IF games[k].goal_home < games[k].goal_away
                    THEN (IF games[k].away = roster[i] THEN 3 ELSE 0)
                ELSE (IF games[k].home = roster[i] THEN 1 ELSE 0)])]]

\* points_matrix[team, round]: the points a team wins in one round
PointsMatrix(games, roster, rounds) ==
    [i \in 1..Len(roster) |->
        [r \in 1..rounds |->
            SumSeq([k \in 1..Len(games) |->
                IF games[k].rodada # r THEN 0
                ELSE IF games[k].goal_home > games[k].goal_away
                    THEN (IF games[k].home = roster[i] THEN 3 ELSE 0)
                ELSE IF games[k].goal_home < games[k].goal_away
                    THEN (IF games[k].away = roster[i] THEN 3 ELSE 0)
                ELSE (IF Involves(games[k], roster[i]) THEN 1 ELSE 0)])]]

\* numpy.cumsum along the rounds, read at one round
RECURSIVE CumSum(_, _)
CumSum(row, r) == IF r = 0 THEN 0 ELSE CumSum(row, r - 1) + row[r]

\* The two-tier distribution of _calculate_theoretical_max_variance with the
\* dominant tier rounded up
TwoTierDistributionRoundedUp(n_teams, round_num) ==
    LET dominant_teams  == (n_teams + 4) \div 5
        weak_teams      == n_teams - dominant_teams
        total_points    == (round_num * 3 * n_teams) \div 2
        points_dominant == ((4 * total_points) \div 5) \div dominant_teams
        points_weak     == IF weak_teams > 0
                              THEN (total_points \div 5) \div weak_teams
                              ELSE 0
    IN  [dominant_teams |-> dominant_teams, weak_teams |-> weak_teams,
         points_dist |-> [i \in 1..n_teams |->
                             IF i <= dominant_teams THEN points_dominant
                             ELSE points_weak]]

\* The locals of _calculate_theoretical_max_variance past its early return;
\* int(0.2 * x) is x \div 5 and int(0.8 * x) is (4 * x) \div 5 for the
\* non-negative integers x used here.
TwoTierDistribution(n_teams, round_num) ==
    LET dominant_teams  == IF n_teams \div 5 > 1 THEN n_teams \div 5 ELSE 1
        weak_teams      == n_teams - dominant_teams
        total_points    == (round_num * 3 * n_teams) \div 2
        points_dominant == ((4 * total_points) \div 5) \div dominant_teams
        points_weak     == IF weak_teams > 0
                              THEN (total_points \div 5) \div weak_teams
                              ELSE 0
    IN  [dominant_teams |-> dominant_teams, weak_teams |-> weak_teams,
         points_dist |-> [i \in 1..n_teams |->
                             IF i <= dominant_teams THEN points_dominant
                             ELSE points_weak]]

\* _calculate_theoretical_max_variance
CalculateTheoreticalMaxVariance(n_teams, round_num) ==
    IF n_teams <= 1 THEN RInt(1)
    ELSE Var(TwoTierDistribution(n_teams, round_num).points_dist)

\* Variant: the loop over the rounds stops one short, "range(total_rounds - 1)".
CalculatePointsProgressionOptimizedShort(games, roster, rounds, n_teams) ==
    LET points_matrix == PointsMatrix(games, roster, rounds)
    IN  [r \in 1..(rounds - 1) |->
            LET points_round == [i \in 1..Len(roster) |-> CumSum(points_matrix[i], r)]
                theoretical_max_var == CalculateTheoreticalMaxVariance(n_teams, r)
            IN  IF Len(points_round) > 1
                    THEN IF RLess(RInt(0), theoretical_max_var)
                            THEN RDiv(Var(points_round), theoretical_max_var)
                            ELSE RInt(0)
                    ELSE RInt(0)]

\* _calculate_points_progression_optimized: one normalised variance per round
CalculatePointsProgressionOptimized(games, roster, rounds, n_teams) ==
    LET points_matrix == PointsMatrix(games, roster, rounds)
    IN  [r \in 1..rounds |->
            LET points_round == [i \in 1..Len(roster) |-> CumSum(points_matrix[i], r)]
                theoretical_max_var == CalculateTheoreticalMaxVariance(n_teams, r)
            IN  IF Len(points_round) > 1
                    THEN IF RLess(RInt(0), theoretical_max_var)
                            THEN RDiv(Var(points_round), theoretical_max_var)
                            ELSE RInt(0)
                    ELSE RInt(0)]

----------------------------------------------------------------------------
(* Null model                                                               *)

\* _calculate_match_probabilities: the season-wide rates <<ph, pd, pa>>
GlobalRates(games) ==
    LET total_games == Len(games)
        home_wins == Cardinality({k \in 1..total_games :
                                     games[k].goal_home > games[k].goal_away})
        draws     == Cardinality({k \in 1..total_games :
                                     games[k].goal_home = games[k].goal_away})
        away_wins == total_games - home_wins - draws
    IN  <<Rat(home_wins, total_games), Rat(draws, total_games),
          Rat(away_wins, total_games)>>

Positive(x) == RLess(RInt(0), x)

\* The strength-adjusted probabilities are terms over the logistic function,
\* which has no exact rational value: the home-win probability
\* 0.7 * sigmoid(3 * diff) + 0.3 * ph, and the share of the remainder
\* 1 - ph_adjusted that goes to the draw and to the away win (the final
\* normalisation divides by a total that is 1).
AdjustedHomeWin(diff, gph) == <<"0.7*sigmoid(3*diff)+0.3*ph", diff, gph>>

AdjustedRemainder(diff, gph, share) ==
    <<"(1-ph_adjusted)*share", AdjustedHomeWin(diff, gph), share>>

\* The strength branch of calculate_match_probabilities
AdjustedProbabilities(strengths, home_team, away_team, gph, gpd, gpa) ==
    LET home_strength == DictGet(strengths, home_team, Rat(1, 2))
        away_strength == DictGet(strengths, away_team, Rat(1, 2))
        home_strength_adj == RMinOf(Rat(19, 20), RAdd(home_strength, Rat(1, 10)))
        strength_diff == RSub(home_strength_adj, away_strength)
        rest == RAdd(gpd, gpa)
    IN  <<AdjustedHomeWin(strength_diff, gph),
          AdjustedRemainder(strength_diff, gph,
              IF Positive(rest) THEN RDiv(gpd, rest) ELSE Rat(3, 10)),
          AdjustedRemainder(strength_diff, gph,
              IF Positive(rest) THEN RDiv(gpa, rest) ELSE Rat(7, 10))>>

\* Variant: no early return for an empty mapping; every team then takes the
\* default strength 0.5.
CalculateMatchProbabilitiesAdjusted(strengths, home_team, away_team, gph, gpd, gpa) ==
    AdjustedProbabilities(strengths, home_team, away_team, gph, gpd, gpa)

\* ImprovedMatchSimulator.calculate_match_probabilities
CalculateMatchProbabilities(strengths, home_team, away_team, gph, gpd, gpa) ==
    IF DOMAIN strengths = {}
        THEN <<gph, gpd, gpa>>
        ELSE AdjustedProbabilities(strengths, home_team, away_team, gph, gpd, gpa)

\* The outcome categories a trial can draw for a match (those of positive
\* probability).  Without strength data the rates are used as they are.
\* With strength data the home-win probability is 0.7 * sigmoid + 0.3 * ph
\* with 0 < sigmoid < 1, so it lies strictly between 0 and 1, and the rest
\* is split as pd : pa (0.3 : 0.7 when pd + pa = 0).
CategorySupport(strengths, gph, gpd, gpa) ==
    IF DOMAIN strengths = {}
        THEN (IF Positive(gph) THEN {"H"} ELSE {}) \cup
             (IF Positive(gpd) THEN {"D"} ELSE {}) \cup
             (IF Positive(gpa) THEN {"A"} ELSE {})
        ELSE {"H"} \cup
             (IF Positive(RAdd(gpd, gpa))
                 THEN (IF Positive(gpd) THEN {"D"} ELSE {}) \cup
                      (IF Positive(gpa) THEN {"A"} ELSE {})
                 ELSE {"D", "A"})

\* The scorelines a trial writes for a category: the fixed ones of
\* _run_vectorized_simulations, or the sampled ones of
\* _run_optimized_rankings_simulations.
TrialScorelines(vectorized, category) ==
    IF vectorized
        THEN CASE category = "H" -> {<<2, 0>>}
               [] category = "D" -> {<<1, 1>>}
               [] category = "A" -> {<<0, 2>>}
        ELSE CASE category = "H" -> {1, 2, 3} \X {0, 1}
               [] category = "D" -> {<<0, 0>>, <<1, 1>>, <<2, 2>>}
               [] category = "A" -> {0, 1} \X {1, 2, 3}

Sign(sc) == IF sc[1] > sc[2] THEN 1 ELSE IF sc[1] < sc[2] THEN -1 ELSE 0

\* The curve reads a scoreline only through the sign of its goal difference,
\* so a trial is enumerated by one scoreline per attainable sign.
TrialResults(vectorized, support) ==
    LET all == UNION {TrialScorelines(vectorized, c) : c \in support}
    IN  {CHOOSE sc \in all : Sign(sc) = sg : sg \in {Sign(sc) : sc \in all}}

\* numpy.percentile(column, q) with linear interpolation
RECURSIVE SortRat(_)
SortRat(s) ==
    IF s = <<>> THEN <<>>
    ELSE LET i == CHOOSE i \in 1..Len(s) : \A j \in 1..Len(s) : RLeq(s[i], s[j])
         IN  <<s[i]>> \o SortRat([k \in 1..(Len(s) - 1) |->
                                     IF k < i THEN s[k] ELSE s[k + 1]])

Percentile(column, q) ==
    LET sorted == SortRat(column)
        n      == Len(column)
        lo     == (q * (n - 1)) \div 100
        frac   == Rat((q * (n - 1)) % 100, 100)
    IN  IF lo + 1 >= n THEN sorted[n]
        ELSE RAdd(sorted[lo + 1],
                  RMul(frac, RSub(sorted[lo + 2], sorted[lo + 1])))

\* (1 - alpha) * 100 for the default alpha = 0.05
EnvelopePercent == 95

CalculateConfidenceEnvelope(curves, rounds) ==
    [r \in 1..rounds |->
        Percentile([i \in 1..Len(curves) |-> curves[i][r]], EnvelopePercent)]

----------------------------------------------------------------------------
(* Turning point                                                            *)

\* Variant: 0.1 * R is rounded to the nearest integer instead of truncated.
MinConsecutiveRoundsNearest(rounds) ==
    IF (rounds + 5) \div 10 > 3 THEN (rounds + 5) \div 10 ELSE 3

MinConsecutiveRounds(rounds) == IF rounds \div 10 > 3 THEN rounds \div 10 ELSE 3

MinPercentageAbove(ranking_data) == IF ranking_data THEN Rat(3, 4) ELSE Rat(7, 10)

\* Variant: a round on the envelope counts as above it (">=" for ">").
AboveOrOn(observed, envelope, i) == RLeq(envelope[i], observed[i])

Above(observed, envelope, i) == RLess(envelope[i], observed[i])

\* Variant: the scan takes one more start round, "range(len(curve) - k + 1)".
FindTurningPointInclusive(observed, envelope, rounds, ranking_data) ==
    LET k == MinConsecutiveRounds(rounds)
        n == Len(observed)
        qualifies(idx) ==
            /\ Above(observed, envelope, idx)
            /\ \A i \in idx..(IF idx + k - 1 < n THEN idx + k - 1 ELSE n) :
                   Above(observed, envelope, i)
            /\ (IF idx + k - 1 < n THEN k ELSE n - idx + 1) >= k
            /\ RLeq(MinPercentageAbove(ranking_data),
                    Rat(Cardinality({i \in idx..n : Above(observed, envelope, i)}),
                        n - idx + 1))
        found == {idx \in 1..(n - k + 1) : qualifies(idx)}
    IN  IF found = {} THEN <<None, None>>
        ELSE LET tau == CHOOSE idx \in found : \A j \in found : idx <= j
             IN  <<Some(tau), Some(Rat(tau, rounds))>>

\* Variant: the share of rounds above the envelope is taken over the window
\* of k rounds instead of over the rest of the season.
FindTurningPointWindowShare(observed, envelope, rounds, ranking_data) ==
    LET k == MinConsecutiveRounds(rounds)
        n == Len(observed)
        found == {idx \in 1..(n - k) :
                     \A i \in idx..(idx + k - 1) : Above(observed, envelope, i)}
    IN  IF found = {} THEN <<None, None>>
        ELSE LET tau == CHOOSE idx \in found : \A j \in found : idx <= j
             IN  <<Some(tau), Some(Rat(tau, rounds))>>

\* find_turning_point: <<tau, tau / R>>, or <<None, None>>
FindTurningPoint(observed, envelope, rounds, ranking_data) ==
    LET k == MinConsecutiveRounds(rounds)
        n == Len(observed)
        qualifies(idx) ==
            /\ Above(observed, envelope, idx)
            /\ \A i \in idx..(IF idx + k - 1 < n THEN idx + k - 1 ELSE n) :
                   Above(observed, envelope, i)
            /\ (IF idx + k - 1 < n THEN k ELSE n - idx + 1) >= k
            /\ RLeq(MinPercentageAbove(ranking_data),
                    Rat(Cardinality({i \in idx..n : Above(observed, envelope, i)}),
                        n - idx + 1))
        found == {idx \in 1..(n - k) : qualifies(idx)}
    IN  IF found = {} THEN <<None, None>>
        ELSE LET tau == CHOOSE idx \in found : \A j \in found : idx <= j
             IN  <<Some(tau), Some(Rat(tau, rounds))>>

----------------------------------------------------------------------------
(* The season pipeline: the steps _analyze_sequential, _process_batch and  *)
(* _analyze_single_championship run on one analyser, in their order.       *)

inputs == <<season_games, rankings_df, use_dynamic_strengths,
            current_season_weight, num_simulations>>

\* The arguments and the state of the run over all seasons
config == <<processing_mode, df_jogos, output_dir, unwritable, resume, batch_size>>

\* What belongs to the round-numbering tools, to the worker pool and to the
\* caller of a single function
aside == <<season_df, assigned_rounds, current_round, sched_pc, future_to_champ,
           max_workers, last_call>>

orch == <<orch_pc, championship_ids, batch_idx, handled, batch_results, results,
          completed_ids, checkpoint_file, checkpoint_data, champ_id, skipped,
          load_failed, kills>>

info == <<teams, num_teams, total_rounds, team_strengths, has_ranking_data,
          strength_calculation_method, strength_variance, points_progression,
          position_definitions>>

\* OptimizedCompetitiveBalanceAnalyzer.__init__
Construct ==
    /\ pc = "new"
    /\ season_games # <<>>
    /\ LET roster == RosterOf(season_games)
           rounds == MaxRodada(season_games)
       IN  \E loaded \in {LoadTeamStrengths(season_games, roster, rankings_df,
                                            use_dynamic_strengths,
                                            current_season_weight)},
              pp \in {CalculatePointsProgression(season_games, roster, rounds)} :
           /\ teams' = roster
           /\ num_teams' = Len(roster)
           /\ total_rounds' = rounds
           /\ team_strengths' = loaded.team_strengths
           /\ has_ranking_data' = loaded.has_ranking_data
           /\ strength_calculation_method' = loaded.strength_calculation_method
           /\ strength_variance' = loaded.strength_variance
           /\ points_progression' = pp
           /\ position_definitions' = Some(CalculatePositionDefinitions(pp, roster, rounds))
    /\ observed_imbalance_curve' = None
    /\ simulation_curves' = None
    /\ envelope_upper_bound' = None
    /\ ph' = None /\ pd' = None /\ pa' = None
    /\ pc' = "constructed"
    /\ UNCHANGED <<inputs, sim, result, round_data, config, aside, orch>>

CalculateObservedImbalance ==
    /\ pc = "constructed"
    /\ observed_imbalance_curve' =
           Some(CalculatePointsProgressionOptimized(season_games, teams,
                                                    total_rounds, num_teams))
    /\ pc' = "observed"
    /\ UNCHANGED <<inputs, info, simulation_curves, envelope_upper_bound,
                   ph, pd, pa, sim, result, round_data, config, aside, orch>>

\* run_null_model_optimized up to its first trial: the rates and the
\* pre-allocated S x R matrix of zeros
RunNullModelOptimized ==
    /\ pc = "observed"
    /\ LET rates == GlobalRates(season_games)
       IN  ph' = Some(rates[1]) /\ pd' = Some(rates[2]) /\ pa' = Some(rates[3])
    /\ simulation_curves' =
           Some([i \in 1..num_simulations |-> [r \in 1..total_rounds |-> RInt(0)]])
    /\ sim' = 0
    /\ pc' = "simulating"
    /\ UNCHANGED <<inputs, info, observed_imbalance_curve, envelope_upper_bound,
                   result, round_data, config, aside, orch>>

\* One iteration of the trial loop: every scoreline is redrawn over the real
\* pairing and the trial's curve is written to row sim of the matrix.
RunTrial ==
    /\ pc = "simulating"
    /\ sim < num_simulations
    /\ LET vectorized == ~has_ranking_data
           support == CategorySupport(IF vectorized THEN EmptyDict ELSE team_strengths,
                                      ph[1], pd[1], pa[1])
           draws == TrialResults(vectorized, support)
       IN  \E sc \in [1..Len(season_games) -> draws] :
              LET simulated_games ==
                      [k \in 1..Len(season_games) |->
                          Game(season_games[k].rodada, season_games[k].home,
                               season_games[k].away, sc[k][1], sc[k][2])]
                  sim_curve == CalculatePointsProgressionOptimized(
                                   simulated_games, teams, total_rounds, num_teams)
              IN  simulation_curves' =
                      Some([simulation_curves[1] EXCEPT ![sim + 1] = sim_curve])
    /\ sim' = sim + 1
    /\ pc' = IF sim + 1 = num_simulations THEN "simulated" ELSE "simulating"
    /\ UNCHANGED <<inputs, info, observed_imbalance_curve, envelope_upper_bound,
                   ph, pd, pa, result, round_data, config, aside, orch>>

\* calculate_confidence_envelope
ConfidenceEnvelope ==
    /\ pc = "simulated"
    /\ simulation_curves # None
    /\ envelope_upper_bound' =
           Some(CalculateConfidenceEnvelope(simulation_curves[1], total_rounds))
    /\ pc' = "enveloped"
    /\ UNCHANGED <<inputs, info, observed_imbalance_curve, simulation_curves,
                   ph, pd, pa, sim, result, round_data, config, aside, orch>>

AnalysisResult(tp) ==
    [num_teams |-> num_teams,
     total_rounds |-> total_rounds,
     turning_point_round |-> tp[1],
     turning_point_percent |-> tp[2],
     final_imbalance |-> Some(observed_imbalance_curve[1][total_rounds]),
     ph |-> ph[1], pd |-> pd[1], pa |-> pa[1],
     mean_simulation_imbalance |->
         Some(RMean([i \in 1..Len(simulation_curves[1]) |->
                        simulation_curves[1][i][total_rounds]])),
     is_competitive |-> (tp[1] = None),
     has_ranking_data |-> has_ranking_data,
     ranking_based_simulation |-> has_ranking_data,
     strength_variance |-> strength_variance[1],
     position_definitions |-> position_definitions,
     strength_calculation_method |-> strength_calculation_method]

\* Variant: tau is compared with the 0-based round index instead of the
\* round number.
RoundByRoundDataZeroBased(observed, envelope, rounds, ranking_data) ==
    Let(FindTurningPoint(observed, envelope, rounds, ranking_data),
        LAMBDA tp :
            [round_idx \in 1..Len(observed) |->
                [rodada |-> round_idx,
                 observed_imbalance |-> observed[round_idx],
                 envelope_upper |-> envelope[round_idx],
                 is_turning_point |-> (tp[1] = Some(round_idx - 1))]])

\* The rows save_round_by_round_data writes: one per entry of the observed
\* curve, flagged where the round is find_turning_point's tau.
RoundByRoundData(observed, envelope, rounds, ranking_data) ==
    Let(FindTurningPoint(observed, envelope, rounds, ranking_data),
        LAMBDA tp :
            [round_idx \in 1..Len(observed) |->
                [rodada |-> round_idx,
                 observed_imbalance |-> observed[round_idx],
                 envelope_upper |-> envelope[round_idx],
                 is_turning_point |-> (tp[1] = Some(round_idx))]])

\* _analyze_sequential and _analyze_single_championship write the series
\* before they ask for the result, when an output directory was given.
SavesBeforeResult ==
    processing_mode \in {"sequential", "parallel"} /\ output_dir

\* save_round_by_round_data, where the callers place it: after the envelope
\* in a sequential or parallel run (and for an analyser used on its own),
\* after the result was appended in a batch run.  Writing the file of an
\* unwritable id raises into the caller's except clause.
SaveRoundByRoundData ==
    /\ output_dir
    /\ round_data = None
    /\ IF processing_mode = "batch" THEN pc = "appended" ELSE pc = "enveloped"
    /\ observed_imbalance_curve # None /\ envelope_upper_bound # None
    /\ IF champ_id \in unwritable
          THEN /\ pc' = "error"
               /\ round_data' = None
          ELSE /\ pc' = IF processing_mode = "batch" THEN "saved" ELSE pc
               /\ round_data' =
                      Some(RoundByRoundData(observed_imbalance_curve[1],
                                            envelope_upper_bound[1], total_rounds,
                                            has_ranking_data))
    /\ UNCHANGED <<inputs, info, observed_imbalance_curve, simulation_curves,
                   envelope_upper_bound, ph, pd, pa, sim, result, config, aside, orch>>

\* get_analysis_result; reading the strength_variance attribute that
\* _load_team_strengths never assigned raises, and the pipeline ends in the
\* caller's except clause without a result.
GetAnalysisResult ==
    /\ pc = "enveloped"
    /\ SavesBeforeResult => round_data # None
    /\ IF strength_variance = None
          THEN /\ pc' = "error"
               /\ result' = None
          ELSE /\ pc' = "done"
               /\ result' = Some(AnalysisResult(
                      FindTurningPoint(observed_imbalance_curve[1],
                                       envelope_upper_bound[1], total_rounds,
                                       has_ranking_data)))
    /\ UNCHANGED <<inputs, info, observed_imbalance_curve, simulation_curves,
                   envelope_upper_bound, ph, pd, pa, sim, round_data, config, aside,
                   orch>>

----------------------------------------------------------------------------
(* Inputs and specifications                                                *)

MaxRounds == 3

NumSimulations == 1

MaxGoals == 2

RosterSizes == 2..5

\* One scoreline per result of a match
ResultScorelines == {<<1, 0>>, <<1, 1>>, <<0, 1>>}

Unconstructed ==
    /\ pc = "new"
    /\ teams = <<>> /\ num_teams = 0 /\ total_rounds = 0
    /\ team_strengths = EmptyDict /\ has_ranking_data = FALSE
    /\ strength_calculation_method = "static"
    /\ strength_variance = None
    /\ points_progression = EmptyDict /\ position_definitions = None
    /\ observed_imbalance_curve = None /\ simulation_curves = None
    /\ envelope_upper_bound = None
    /\ ph = None /\ pd = None /\ pa = None
    /\ sim = 0 /\ result = None
    /\ round_data = None

\* No round-numbering tool is at work, no worker pool exists and no call has
\* failed.
NoAside ==
    /\ season_df = <<>> /\ assigned_rounds = <<>> /\ current_round = 0 /\ sched_pc = "off"
    /\ future_to_champ = <<>> /\ max_workers = 0 /\ last_call = None

\* An analyser used on its own: no run over several seasons is under way.
NoOrchestrator ==
    /\ processing_mode = "direct"
    /\ df_jogos = [columns_ok |-> TRUE, seasons |-> <<>>]
    /\ output_dir = TRUE /\ unwritable = {} /\ resume = FALSE /\ batch_size = 1
    /\ orch_pc = "direct"
    /\ championship_ids = <<>> /\ batch_idx = 0 /\ handled = {}
    /\ batch_results = <<>> /\ results = <<>> /\ completed_ids = {}
    /\ checkpoint_file = None /\ checkpoint_data = None
    /\ champ_id = 0 /\ skipped = {} /\ load_failed = FALSE /\ kills = 0

\* Seasons of 2..5 teams capped after 1..MaxRounds rounds, every result of
\* every match; the analyser is built and the observed curve computed.
Init ==
    /\ NoAside
    /\ Unconstructed
    /\ NoOrchestrator
    /\ \E n \in RosterSizes, r \in 1..MaxRounds :
           season_games \in SeasonsOver(Fixtures(n, r), ResultScorelines)
    /\ rankings_df = None
    /\ use_dynamic_strengths = FALSE
    /\ current_season_weight = Rat(1, 2)
    /\ num_simulations = NumSimulations

Next == Construct \/ CalculateObservedImbalance

Spec == Init /\ [][Next]_vars

\* The end-to-end season: four teams, three rounds, team 1 wins its matches
\* 2-0, 3-0 and 1-0, and teams 2, 3, 4 share the points of their own matches
\* evenly (three draws, or one win each).
EndToEndSeasons ==
    {g \in SeasonsOver(Fixtures(4, 3), ResultScorelines \cup {<<2, 0>>, <<3, 0>>}) :
        /\ <<g[1].goal_home, g[1].goal_away>> = <<2, 0>>
        /\ <<g[3].goal_home, g[3].goal_away>> = <<3, 0>>
        /\ <<g[5].goal_home, g[5].goal_away>> = <<1, 0>>
        /\ \A k \in {2, 4, 6} : <<g[k].goal_home, g[k].goal_away>> \in ResultScorelines
        /\ \A t, u \in 2..4 :
              SumSeq([k \in 1..3 |-> GamePoints(g[2 * k], t)]) =
              SumSeq([k \in 1..3 |-> GamePoints(g[2 * k], u)])}

\* Last season's final table of the four clubs
PreviousTable ==
    [k \in 1..4 |-> RankingRow("prev", <<"exact", k>>, k, Some(3 * (4 - k)))]

\* The whole pipeline on two-team seasons of four rounds (the shortest season
\* in which find_turning_point has a round to scan) and on the end-to-end
\* seasons, without rankings and with last season's table.
InitPipeline ==
    /\ NoAside
    /\ Unconstructed
    /\ NoOrchestrator
    /\ season_games \in SeasonsOver(Fixtures(2, 4), ResultScorelines)
                        \cup EndToEndSeasons
    /\ rankings_df \in {None, Some(PreviousTable)}
    /\ use_dynamic_strengths = FALSE
    /\ current_season_weight = Rat(1, 2)
    /\ num_simulations = NumSimulations

NextPipeline ==
    \/ Construct
    \/ CalculateObservedImbalance
    \/ RunNullModelOptimized
    \/ RunTrial
    \/ ConfidenceEnvelope
    \/ GetAnalysisResult

SpecPipeline == InitPipeline /\ [][NextPipeline]_vars

\* Strength estimation: lookback strengths over two-team seasons with every
\* scoreline of 0..MaxGoals goals and over three-team seasons, and ranking
\* strengths over every rankings table of up to MaxRankingRows rows.
MaxRankingRows == 2

Scorelines == (0..MaxGoals) \X (0..MaxGoals)

\* The scorelines of the three-team seasons: with more goals the exact
\* lookback strengths of three teams leave the 32-bit integers.
LowScorelines == {0, 1, 2} \X {0, 1, 2}

RankingRows ==
    {RankingRow(season, team, pos, pts) :
        season \in {"prev", "curr"},
        team \in {<<"exact", 1>>, <<"similar", 2>>, <<"other", 0>>},
        pos \in {1, 3},
        pts \in {None, Some(1), Some(2)}}

\* load_rankings filters the table by season, so the order of the rows of
\* one season against those of another does not reach the analyser: the
\* tables are taken with the previous season's rows first.
RankingTables ==
    {t \in UNION {[1..n -> RankingRows] : n \in 1..MaxRankingRows} :
        \A i, j \in 1..Len(t) :
            i < j => ~(t[i].season = "curr" /\ t[j].season = "prev")}

ThreeTeamSeason ==
    <<Game(1, 1, 2, 1, 0), Game(2, 2, 3, 1, 1), Game(3, 3, 1, 0, 1)>>

InitStrength ==
    /\ NoAside
    /\ Unconstructed
    /\ NoOrchestrator
    /\ \/ /\ use_dynamic_strengths = TRUE
          /\ season_games \in SeasonsOver(Fixtures(2, 2), Scorelines)
                              \cup SeasonsOver(Fixtures(3, 3), LowScorelines)
          /\ rankings_df = None
          /\ current_season_weight = Rat(1, 2)
       \/ /\ use_dynamic_strengths = FALSE
          /\ season_games = ThreeTeamSeason
          /\ rankings_df \in {None} \cup {Some(t) : t \in RankingTables}
          /\ current_season_weight \in {Rat(1, 4), Rat(1, 2)}
    /\ num_simulations = NumSimulations

NextStrength == Construct

SpecStrength == InitStrength /\ [][NextStrength]_vars

\* Turning-point detection on seasons of up to MaxSeasonRounds rounds.  The
\* analyser stands after calculate_confidence_envelope; the envelope is that
\* of trials whose curve is the constant 1/2, and the observed curve is
\* above it on a stretch a..b of a few rounds and on the last rounds c..R
\* (c = R + 1: none), on it or below it on the other rounds.
MaxSeasonRounds == 36

StretchLengths == 2..4

TailLengths == {0, 4}

SteppedCurve(rounds, a, b, c) ==
    [i \in 1..rounds |->
        IF (a <= i /\ i <= b) \/ c <= i THEN Rat(1, 1)
        ELSE IF i % 2 = 0 THEN Rat(1, 2) ELSE Rat(0, 1)]

FlatEnvelope(rounds) == [i \in 1..rounds |-> Rat(1, 2)]

InitTurning ==
    /\ NoAside
    /\ NoOrchestrator
    /\ pc = "enveloped"
    /\ total_rounds \in 1..MaxSeasonRounds
    /\ season_games = <<Game(total_rounds, 1, 2, 1, 0)>>
    /\ rankings_df = None
    /\ use_dynamic_strengths \in BOOLEAN
    /\ current_season_weight = Rat(1, 2)
    /\ num_simulations = NumSimulations
    /\ teams = <<1, 2>> /\ num_teams = 2
    /\ team_strengths = IF use_dynamic_strengths
                            THEN [t \in {1, 2} |-> Rat(1, 2)] ELSE EmptyDict
    /\ has_ranking_data = use_dynamic_strengths
    /\ strength_calculation_method =
           IF use_dynamic_strengths THEN "dynamic" ELSE "static"
    /\ strength_variance =
           IF use_dynamic_strengths THEN Some("var") ELSE None
    /\ points_progression = EmptyDict /\ position_definitions = None
    /\ \E a \in 1..total_rounds, stretch \in StretchLengths, tail \in TailLengths :
           /\ a + stretch - 1 <= total_rounds
           /\ tail = 0 \/ a + stretch + 1 <= total_rounds - tail + 1
           /\ observed_imbalance_curve =
                  Some(SteppedCurve(total_rounds, a, a + stretch - 1,
                                    total_rounds - tail + 1))
    /\ simulation_curves =
           Some([i \in 1..NumSimulations |-> FlatEnvelope(total_rounds)])
    /\ envelope_upper_bound = Some(FlatEnvelope(total_rounds))
    /\ ph = Some(Rat(1, 1)) /\ pd = Some(Rat(0, 1)) /\ pa = Some(Rat(0, 1))
    /\ sim = NumSimulations
    /\ result = None /\ round_data = None

NextTurning == SaveRoundByRoundData \/ GetAnalysisResult

SpecTurning == InitTurning /\ [][NextTurning]_vars

----------------------------------------------------------------------------
(* The run over all seasons: MultiLeagueAnalyzer.analyze_all_leagues in its *)
(* three modes.  A season is its id 1..n in the match table; per season the *)
(* steps of the analyser above run on the season's games and on the rows    *)
(* the rankings table holds for it.                                         *)

analyser == <<pc, teams, num_teams, total_rounds, team_strengths,
              has_ranking_data, strength_calculation_method, strength_variance,
              points_progression, position_definitions,
              observed_imbalance_curve, simulation_curves, envelope_upper_bound,
              ph, pd, pa, sim, result, round_data>>

settings == <<use_dynamic_strengths, current_season_weight, num_simulations>>

\* No analyser object is left from the season before: the attributes are
\* those of an analyser not yet built.
NoAnalyser ==
    /\ pc' = "new"
    /\ teams' = <<>> /\ num_teams' = 0 /\ total_rounds' = 0
    /\ team_strengths' = EmptyDict /\ has_ranking_data' = FALSE
    /\ strength_calculation_method' = "static"
    /\ strength_variance' = None
    /\ points_progression' = EmptyDict /\ position_definitions' = None
    /\ observed_imbalance_curve' = None /\ simulation_curves' = None
    /\ envelope_upper_bound' = None
    /\ ph' = None /\ pd' = None /\ pa' = None
    /\ sim' = 0 /\ result' = None
    /\ round_data' = None

\* BatchLeagueProcessor.__init__: checkpoint_interval
CheckpointInterval == 5

AllIds == 1..Len(df_jogos.seasons)

\* [cid for cid in df_clean['id'].unique() if cid not in completed_ids]
IdsNotIn(done) ==
    SelectSeq([i \in 1..Len(df_jogos.seasons) |-> i], LAMBDA cid : cid \notin done)

NoCheckpoint ==
    [raised |-> FALSE, warned |-> FALSE, completed_ids |-> {}, results |-> <<>>,
     checkpoint_data |-> None]

\* Variant: an unloadable checkpoint file ends the run with its exception.
LoadCheckpointRaising(file, resume_requested, dir) ==
    IF resume_requested /\ dir /\ file # None
        THEN IF ~file[1].valid
                THEN [NoCheckpoint EXCEPT !.raised = TRUE]
                ELSE [NoCheckpoint EXCEPT !.completed_ids = file[1].completed_ids,
                                          !.results = file[1].results,
                                          !.checkpoint_data = file]
        ELSE NoCheckpoint

\* The head of process_in_batches: completed_ids and results as they stand
\* after the attempt to load processing_checkpoint.pkl
LoadCheckpoint(file, resume_requested, dir) ==
    IF resume_requested /\ dir /\ file # None
        THEN IF ~file[1].valid
                THEN [NoCheckpoint EXCEPT !.warned = TRUE]
                ELSE [NoCheckpoint EXCEPT !.completed_ids = file[1].completed_ids,
                                          !.results = file[1].results,
                                          !.checkpoint_data = file]
        ELSE NoCheckpoint

\* analyze_all_leagues up to the loop over the seasons: the checkpoint is
\* loaded (batch mode), then DataValidator.validate_dataframe runs outside
\* any try block and its ValueError for missing columns leaves the call.
AnalyzeAllLeagues ==
    /\ orch_pc = "idle"
    /\ \E loaded \in {IF processing_mode = "batch"
                          THEN LoadCheckpoint(checkpoint_file, resume, output_dir)
                          ELSE NoCheckpoint} :
           /\ load_failed' = loaded.warned
           /\ checkpoint_data' = loaded.checkpoint_data
           /\ IF loaded.raised \/ ~df_jogos.columns_ok
                 THEN /\ orch_pc' = "raised"
                      /\ completed_ids' = {} /\ results' = <<>>
                      /\ championship_ids' = <<>>
                 ELSE /\ orch_pc' = "running"
                      /\ completed_ids' = loaded.completed_ids
                      /\ results' = loaded.results
                      /\ championship_ids' = IdsNotIn(loaded.completed_ids)
    /\ batch_idx' = 0 /\ handled' = {} /\ batch_results' = <<>>
    /\ skipped' = {} /\ champ_id' = 0
    /\ UNCHANGED <<analyser, season_games, rankings_df, settings, config, aside,
                   checkpoint_file, kills>>

\* Positions of championship_ids the loop is at: the whole list in a
\* sequential run, the current batch or chunk otherwise
CurrentSlice ==
    IF processing_mode = "sequential" THEN 1..Len(championship_ids)
    ELSE {k \in 1..Len(championship_ids) :
             batch_idx < k /\ k <= batch_idx + batch_size}

Waiting == {k \in CurrentSlice : championship_ids[k] \notin handled}

\* The top of the loop body: the next season is taken (any season of the
\* chunk in a parallel run, whose workers finish in any order) and a new
\* analyser is about to be built on it.
BeginSeason ==
    /\ orch_pc = "running"
    /\ champ_id = 0
    /\ \E k \in Waiting :
           /\ processing_mode = "parallel" \/ \A j \in Waiting : k <= j
           /\ champ_id' = championship_ids[k]
           /\ season_games' = df_jogos.seasons[championship_ids[k]].games
           /\ rankings_df' = df_jogos.seasons[championship_ids[k]].rankings
    /\ NoAnalyser
    /\ UNCHANGED <<settings, config, aside, orch_pc, championship_ids, batch_idx,
                   handled, batch_results, results, completed_ids,
                   checkpoint_file, checkpoint_data, skipped, load_failed, kills>>

\* The AnalysisResult object of the season under analysis
ResultObject ==
    [type |-> "AnalysisResult", championship_id |-> champ_id, fields |-> result[1]]

\* results.append(result) / batch_results.append(result)
AppendResult ==
    /\ orch_pc = "running"
    /\ champ_id # 0
    /\ pc = "done"
    /\ IF processing_mode = "batch"
          THEN batch_results' = Append(batch_results, ResultObject)
               /\ UNCHANGED results
          ELSE results' = Append(results, ResultObject)
               /\ UNCHANGED batch_results
    /\ pc' = "appended"
    /\ UNCHANGED <<inputs, info, observed_imbalance_curve, simulation_curves,
                   envelope_upper_bound, ph, pd, pa, sim, result, round_data,
                   config, aside, orch_pc, championship_ids, batch_idx, handled,
                   completed_ids, checkpoint_file, checkpoint_data, champ_id,
                   skipped, load_failed, kills>>

\* The end of the loop body: the try block ran through, or its except
\* clause logged the season and the loop goes on.
EndSeason ==
    /\ orch_pc = "running"
    /\ champ_id # 0
    /\ \/ pc = "error"
       \/ pc = "saved"
       \/ pc = "appended" /\ ~(processing_mode = "batch" /\ output_dir)
    /\ handled' = handled \cup {champ_id}
    /\ skipped' = IF pc = "error" THEN skipped \cup {champ_id} ELSE skipped
    /\ champ_id' = 0
    /\ UNCHANGED <<analyser, season_games, rankings_df, settings, config, aside,
                   orch_pc, championship_ids, batch_idx, batch_results, results,
                   completed_ids, checkpoint_file, checkpoint_data, load_failed,
                   kills>>

\* _save_checkpoint: the file after the call.  r.__dict__ raises on a result
\* that was loaded from a checkpoint (a dict); the except clause logs a
\* warning and the file stays as it was.
SaveCheckpoint(file, completed, res) ==
    IF \E i \in 1..Len(res) : res[i].type # "AnalysisResult"
        THEN file
        ELSE Some([valid |-> TRUE,
                   completed_ids |-> completed,
                   results |-> [i \in 1..Len(res) |->
                                   [res[i] EXCEPT !.type = "dict"]]])

\* The condition under which process_in_batches checkpoints after a batch
CheckpointDue ==
    /\ output_dir
    /\ \/ batch_idx % (CheckpointInterval * batch_size) = 0
       \/ batch_idx + batch_size >= Len(championship_ids)

\* The end of a batch in process_in_batches
EndBatch ==
    /\ orch_pc = "running"
    /\ processing_mode = "batch"
    /\ champ_id = 0
    /\ batch_idx < Len(championship_ids)
    /\ Waiting = {}
    /\ \E extended \in {results \o batch_results},
          completed \in {completed_ids \cup
                            {championship_ids[k] : k \in CurrentSlice}} :
           /\ results' = extended
           /\ completed_ids' = completed
           /\ checkpoint_file' =
                  IF CheckpointDue
                      THEN SaveCheckpoint(checkpoint_file, completed, extended)
                      ELSE checkpoint_file
    /\ batch_idx' = batch_idx + batch_size
    /\ batch_results' = <<>>
    /\ UNCHANGED <<analyser, season_games, rankings_df, settings, config, aside,
                   orch_pc, championship_ids, handled, checkpoint_data,
                   champ_id, skipped, load_failed, kills>>

\* The end of a chunk in analyze_all_leagues_parallel
EndChunk ==
    /\ orch_pc = "running"
    /\ processing_mode = "parallel"
    /\ champ_id = 0
    /\ batch_idx < Len(championship_ids)
    /\ Waiting = {}
    /\ batch_idx' = batch_idx + batch_size
    /\ UNCHANGED <<analyser, season_games, rankings_df, settings, config, aside,
                   orch_pc, championship_ids, handled, batch_results, results,
                   completed_ids, checkpoint_file, checkpoint_data, champ_id,
                   skipped, load_failed, kills>>

\* Variant: the checkpoint file is left in place when the run returns.
ReturnResultsKeepingCheckpoint ==
    /\ orch_pc = "running"
    /\ champ_id = 0
    /\ IF processing_mode = "sequential" THEN Waiting = {}
                                         ELSE batch_idx >= Len(championship_ids)
    /\ orch_pc' = "returned"
    /\ UNCHANGED <<analyser, season_games, rankings_df, settings, config, aside,
                   championship_ids, batch_idx, handled, batch_results, results,
                   completed_ids, checkpoint_file, checkpoint_data, champ_id,
                   skipped, load_failed, kills>>

\* The loop is over: process_in_batches unlinks the checkpoint file if it
\* exists, and the list of results is returned.
ReturnResults ==
    /\ orch_pc = "running"
    /\ champ_id = 0
    /\ IF processing_mode = "sequential" THEN Waiting = {}
                                         ELSE batch_idx >= Len(championship_ids)
    /\ checkpoint_file' = IF processing_mode = "batch" THEN None
                                                       ELSE checkpoint_file
    /\ orch_pc' = "returned"
    /\ UNCHANGED <<analyser, season_games, rankings_df, settings, config, aside,
                   championship_ids, batch_idx, handled, batch_results, results,
                   completed_ids, checkpoint_data, champ_id, skipped,
                   load_failed, kills>>

MaxKills == 1

\* The process of a batch run is interrupted between two seasons: what it
\* held in memory is gone, the files stay, and the run can be started again
\* with the same arguments.
Interrupt ==
    /\ orch_pc = "running"
    /\ processing_mode = "batch"
    /\ champ_id = 0
    /\ kills < MaxKills
    /\ kills' = kills + 1
    /\ orch_pc' = "idle"
    /\ championship_ids' = <<>> /\ batch_idx' = 0 /\ handled' = {}
    /\ batch_results' = <<>> /\ results' = <<>> /\ completed_ids' = {}
    /\ checkpoint_data' = None /\ skipped' = {} /\ load_failed' = FALSE
    /\ NoAnalyser
    /\ season_games' = <<>> /\ rankings_df' = None
    /\ UNCHANGED <<settings, config, aside, checkpoint_file, champ_id>>

MaxSeasons == 3

\* Last season's table of the two clubs
TwoClubTable ==
    <<RankingRow("prev", <<"exact", 1>>, 1, Some(3)),
      RankingRow("prev", <<"exact", 2>>, 2, Some(0))>>

\* The seasons of a match table: one match between two clubs; the rankings
\* table has rows for the season's league or has none.
SeasonCatalog ==
    {[games |-> <<Game(1, 1, 2, 1, 0)>>, rankings |-> Some(<<>>)],
     [games |-> <<Game(1, 1, 2, 1, 1)>>, rankings |-> Some(TwoClubTable)]}

\* A damaged processing_checkpoint.pkl
UnloadableCheckpoint ==
    [valid |-> FALSE, completed_ids |-> {}, results |-> <<>>]

\* Runs over 1..MaxSeasons seasons in each mode, with and without the
\* required columns, an output directory, a checkpoint file left behind
\* and a season whose round-data file cannot be written.
InitRun ==
    /\ NoAside
    /\ Unconstructed
    /\ season_games = <<>> /\ rankings_df = None
    /\ use_dynamic_strengths = FALSE
    /\ current_season_weight = Rat(1, 2)
    /\ num_simulations = NumSimulations
    /\ processing_mode \in {"sequential", "parallel", "batch"}
    /\ \E n \in 1..MaxSeasons :
           df_jogos \in [columns_ok : BOOLEAN, seasons : [1..n -> SeasonCatalog]]
    /\ output_dir \in BOOLEAN
    /\ unwritable \in {S \in SUBSET AllIds :
                          Cardinality(S) <= 1 /\ (S # {} => output_dir)}
    /\ resume \in IF processing_mode = "batch" THEN BOOLEAN ELSE {FALSE}
    /\ batch_size \in IF processing_mode = "sequential" THEN {1} ELSE {1, 2}
    /\ checkpoint_file \in IF processing_mode = "batch" /\ output_dir
                               THEN {None, Some(UnloadableCheckpoint)}
                               ELSE {None}
    /\ orch_pc = "idle"
    /\ championship_ids = <<>> /\ batch_idx = 0 /\ handled = {}
    /\ batch_results = <<>> /\ results = <<>> /\ completed_ids = {}
    /\ checkpoint_data = None
    /\ champ_id = 0 /\ skipped = {} /\ load_failed = FALSE /\ kills = 0

NextRun ==
    \/ AnalyzeAllLeagues
    \/ BeginSeason
    \/ Construct
    \/ CalculateObservedImbalance
    \/ RunNullModelOptimized
    \/ RunTrial
    \/ ConfidenceEnvelope
    \/ SaveRoundByRoundData
    \/ GetAnalysisResult
    \/ AppendResult
    \/ EndSeason
    \/ EndBatch
    \/ EndChunk
    \/ ReturnResults
    \/ Interrupt

SpecRun == InitRun /\ [][NextRun]_vars

----------------------------------------------------------------------------
(* Properties of the position-lock calculator                               *)

Constructed == pc # "new"

\* The lock predicate and the table, read on the analysed season
Defined(position, round_num) ==
    IsPositionDefined(points_progression, teams, total_rounds, position, round_num)

StandingsAt(round_num) ==
    GetStandingsAtRound(points_progression, teams, total_rounds, round_num)

PointsAfter(team, round_num) == points_progression[team][round_num + 1]

\* The slots calculate_position_definitions evaluates
EvaluatedSlots == TopPositions(teams) \cup LastPositions(teams)

\* The lock round reported for an evaluated slot, None when none is reported
LockRound(position) ==
    LET d == position_definitions[1]
    IN  IF position \in DOMAIN d.relegation_rounds
            THEN Some(d.relegation_rounds[position])
        ELSE IF position = 1 THEN d.champion_round
        ELSE IF position = 2 THEN d.second_round
        ELSE IF position = 3 THEN d.third_round
        ELSE IF position = 4 THEN d.fourth_round
        ELSE None

\* All teams level on points after the final round
TiedFinish ==
    \A t, u \in SeqRange(teams) :
        PointsAfter(t, total_rounds) = PointsAfter(u, total_rounds)

\* All teams level on points after every round
TiedThroughout ==
    \A r \in 1..total_rounds : \A t, u \in SeqRange(teams) :
        PointsAfter(t, r) = PointsAfter(u, r)

\* C1: once the lock predicate holds for slot p at round r, the team in slot
\* p at every later round r' <= R is the team that was in slot p at round r.
C1_LockedOccupantNeverChanges ==
    Constructed =>
        \A p \in 1..num_teams : \A r \in 1..total_rounds :
            Defined(p, r) =>
                \A r2 \in (r + 1)..total_rounds :
                    StandingsAt(r2)[p][1] = StandingsAt(r)[p][1]

\* A season of four teams and three rounds in which one team wins its three
\* matches and the other three take equal points from their own matches.
EndToEndSeason ==
    /\ num_teams = 4 /\ total_rounds = 3
    /\ Len(season_games) = 6
    /\ \E a \in SeqRange(teams) :
          /\ PointsAfter(a, 3) = 9
          /\ \A t, u \in SeqRange(teams) \ {a} : PointsAfter(t, 3) = PointsAfter(u, 3)

\* C2: in the end-to-end season (one team wins all three of its matches, the
\* other three split theirs evenly) slot 1 is locked by round 2.
C2_EndToEndChampionLockedByRoundTwo ==
    (Constructed /\ EndToEndSeason) =>
        /\ position_definitions[1].champion_round # None
        /\ position_definitions[1].champion_round[1] <= 2

C2_Witness ==
    /\ Constructed /\ EndToEndSeason
    /\ position_definitions[1].champion_round = Some(2)
    /\ ~Defined(1, 1)

\* C5: in a season where all teams finish tied on points, every evaluated
\* slot is reported locked at round R and at no earlier round.
C5_TiedFinishLocksOnlyAtLastRound ==
    (Constructed /\ TiedFinish) =>
        \A p \in EvaluatedSlots : LockRound(p) = Some(total_rounds)

\* C9: every evaluated slot is assigned the earliest round at which the lock
\* predicate holds for it, a round in 1..R, and the predicate holds for every
\* slot at round R.
C9_LockRoundIsEarliestDefinedRound ==
    Constructed =>
        /\ \A p \in EvaluatedSlots :
              /\ LockRound(p) # None
              /\ LockRound(p)[1] \in 1..total_rounds
              /\ Defined(p, LockRound(p)[1])
              /\ \A r \in 1..(LockRound(p)[1] - 1) : ~Defined(p, r)
        /\ \A p \in 1..num_teams : Defined(p, total_rounds)
        /\ DOMAIN position_definitions[1].relegation_rounds = LastPositions(teams)

\* A five-team season of three rounds with the bottom slot locked at round 2
\* and the top slot locked only at round 3
C9_Witness ==
    /\ Constructed
    /\ num_teams = 5 /\ total_rounds = 3
    /\ LockRound(5) = Some(2) /\ ~Defined(5, 1)
    /\ LockRound(1) = Some(3) /\ ~Defined(1, 2)

\* C10: a slot p locked at a round r < R has no team ranked below it that can
\* still reach (equal or exceed) its occupant's points, and its occupant
\* cannot reach the points of any team ranked above it, with 3 * (R - r)
\* points left to win.
C10_LockedSlotOutOfReach ==
    Constructed =>
        \A p \in 1..num_teams : \A r \in 1..(total_rounds - 1) :
            Defined(p, r) =>
                LET standings == StandingsAt(r)
                    left == 3 * (total_rounds - r)
                IN  /\ \A i \in (p + 1)..num_teams :
                          standings[i][2] + left < standings[p][2]
                    /\ \A i \in 1..(p - 1) :
                          standings[p][2] + left < standings[i][2]

----------------------------------------------------------------------------
(* Properties of the pipeline                                               *)

Done == pc = "done" /\ result # None

\* The analysed season is one of the end-to-end seasons, scorelines included
EndToEndInput == season_games \in EndToEndSeasons

\* C3 as stated: the end-to-end season is classified non-competitive (a
\* turning point exists).
C3_EndToEndNonCompetitive ==
    (Done /\ EndToEndInput) =>
        /\ result[1].turning_point_round # None
        /\ ~result[1].is_competitive

\* C3, amended: the end-to-end season has R = 3 rounds, so the persistence
\* window k = max(3, int(0.1 * R)) = 3 leaves find_turning_point no round to
\* scan (1..R-k is empty): no turning point is reported and the season is
\* classified competitive, whatever the null model produced.
C3_EndToEndNoTurningPoint ==
    (Done /\ EndToEndInput) =>
        /\ result[1].turning_point_round = None
        /\ result[1].turning_point_percent = None
        /\ result[1].is_competitive

\* The end-to-end season analysed to the end, its curve above the envelope
\* after every round
C3_Witness ==
    /\ Done /\ EndToEndInput
    /\ \A r \in 1..total_rounds :
          Above(observed_imbalance_curve[1], envelope_upper_bound[1], r)
    /\ result[1].is_competitive

\* C4 as stated: a season where all teams finish tied on points yields no
\* turning point.
C4_TiedFinishNoTurningPoint ==
    (Done /\ TiedFinish) => result[1].turning_point_round = None

\* C4, amended: a season where all teams are tied on points after every
\* round yields no turning point.
C4_TiedThroughoutNoTurningPoint ==
    (Done /\ TiedThroughout) => result[1].turning_point_round = None

\* A season of four rounds, level after every round, analysed to the end
\* against a trial that was level after every round too
C4_Witness ==
    /\ Done /\ TiedThroughout
    /\ total_rounds = 4
    /\ \A r \in 1..total_rounds :
          observed_imbalance_curve[1][r] = envelope_upper_bound[1][r]
    /\ result[1].turning_point_round = None

IsCurve(curve) ==
    /\ Len(curve) = total_rounds
    /\ \A r \in 1..total_rounds : RLeq(RInt(0), curve[r])

\* C6: the imbalance curve of a season, real or simulated, has exactly R
\* entries (R the season's total rounds) and every entry is >= 0.
C6_CurveHasRNonNegativeEntries ==
    /\ observed_imbalance_curve # None => IsCurve(observed_imbalance_curve[1])
    /\ simulation_curves # None =>
          \A i \in 1..Len(simulation_curves[1]) : IsCurve(simulation_curves[1][i])

C6_Witness ==
    /\ pc = "simulated"
    /\ total_rounds = 4
    /\ \E r \in 1..total_rounds : Positive(observed_imbalance_curve[1][r])
    /\ \E r \in 1..total_rounds : Positive(simulation_curves[1][num_simulations][r])
    /\ simulation_curves[1][num_simulations] # observed_imbalance_curve[1]

----------------------------------------------------------------------------
(* Properties of the team strengths                                         *)

StrengthValues == DictValues(team_strengths, teams)

\* C7: after strength estimation under either strategy, every strength
\* handed to the match simulator lies in [0.1, 0.9].
C7_StrengthsWithinRange ==
    (Constructed /\ has_ranking_data) =>
        /\ DOMAIN team_strengths = SeqRange(teams)
        /\ \A t \in DOMAIN team_strengths :
              /\ RLeq(Rat(1, 10), team_strengths[t])
              /\ RLeq(team_strengths[t], Rat(9, 10))

\* Strengths blended from the previous and the current season's tables that
\* span the whole range
C7_Witness ==
    /\ Constructed /\ has_ranking_data
    /\ strength_calculation_method = "static"
    /\ LoadRankings(rankings_df, "prev") # None
    /\ LoadRankings(rankings_df, "curr") # None
    /\ \E t \in DOMAIN team_strengths : team_strengths[t] = Rat(1, 10)
    /\ \E t \in DOMAIN team_strengths : team_strengths[t] = Rat(9, 10)
    /\ \E t \in DOMAIN team_strengths :
          RLess(Rat(1, 10), team_strengths[t]) /\ RLess(team_strengths[t], Rat(9, 10))

\* The tolerance allowed to the mean strength
MeanEpsilon == Rat(1, 1000)

\* C8: under either strategy the mean of the team strengths across the
\* roster is 0.5 within a small epsilon.
C8_MeanStrengthIsHalf ==
    (Constructed /\ has_ranking_data) =>
        LET mean == RMean(StrengthValues)
        IN  /\ RLeq(RSub(Rat(1, 2), MeanEpsilon), mean)
            /\ RLeq(mean, RAdd(Rat(1, 2), MeanEpsilon))


----------------------------------------------------------------------------
(* Properties of the turning-point detector                                 *)

\* The curves find_turning_point reads, and what the analyser reported
Observed == observed_imbalance_curve[1]

Envelope == envelope_upper_bound[1]

RoundAbove(i) == RLess(Envelope[i], Observed[i])

\* Rounds idx..R above the envelope, as a share of the rounds idx..R,
\* reaches 7/10 (3/4 with ranking data)
ShareAboveFrom(idx) ==
    LET above == Cardinality({i \in idx..total_rounds : RoundAbove(i)})
        rest == total_rounds - idx + 1
    IN  IF has_ranking_data THEN 4 * above >= 3 * rest ELSE 10 * above >= 7 * rest

\* The start rounds that meet the criterion with a window of k rounds
Candidates(k) ==
    {idx \in 1..(total_rounds - k) :
        /\ \A i \in idx..(idx + k - 1) : RoundAbove(i)
        /\ ShareAboveFrom(idx)}

Least(S) == CHOOSE x \in S : \A y \in S : x <= y

ExpectedTurningPoint(k) ==
    IF Candidates(k) = {} THEN <<None, None>>
    ELSE <<Some(Least(Candidates(k))), Some(Rat(Least(Candidates(k)), total_rounds))>>

\* The tau that the written series flags: the flagged round, if any
FlaggedRounds ==
    {i \in 1..Len(round_data[1]) : round_data[1][i].is_turning_point}

\* C11: find_turning_point returns (idx, idx / R) for exactly the smallest
\* start round idx in 1..R-k at which the observed curve is above the envelope
\* on the k rounds idx..idx+k-1 and the share of rounds idx..R above the
\* envelope reaches the threshold, and returns none exactly when no start
\* round qualifies; the result and the written series, both of which call it,
\* agree on the same round.
C11_TurningPointIsFirstQualifyingRound ==
    /\ Done =>
          <<result[1].turning_point_round, result[1].turning_point_percent>> =
              ExpectedTurningPoint(MinConsecutiveRounds(total_rounds))
    /\ (pc \in {"enveloped", "done", "error"} /\ round_data # None) =>
          FlaggedRounds =
              {idx \in Candidates(MinConsecutiveRounds(total_rounds)) :
                  idx = Least(Candidates(MinConsecutiveRounds(total_rounds)))}

\* C11 witness: a turning point reported at a round that is not the first
\* round opening a window of k rounds above the envelope (the earlier window
\* fails the share criterion)
C11_Witness ==
    /\ Done
    /\ result[1].turning_point_round # None
    /\ round_data # None
    /\ \E idx \in 1..(result[1].turning_point_round[1] - 1) :
           /\ \A i \in idx..(idx + MinConsecutiveRounds(total_rounds) - 1) :
                  RoundAbove(i)
           /\ ~ShareAboveFrom(idx)


\* max(3, 0.1 * R) with 0.1 * R truncated, and with 0.1 * R rounded to nearest
WindowTruncated == IF total_rounds \div 10 >= 3 THEN total_rounds \div 10 ELSE 3

WindowNearest ==
    IF (total_rounds + 5) \div 10 >= 3 THEN (total_rounds + 5) \div 10 ELSE 3

\* What the analyser reported with a window of k rounds and a scan of the
\* start rounds 1..R-k: the result's round and the flagged row are the first
\* candidate, or there is none
ReportsScanWith(k) ==
    /\ Done => result[1].turning_point_round =
                   (IF Candidates(k) = {} THEN None ELSE Some(Least(Candidates(k))))
    /\ (pc \in {"enveloped", "done", "error"} /\ round_data # None) =>
          FlaggedRounds = {idx \in Candidates(k) : idx = Least(Candidates(k))}

----------------------------------------------------------------------------
(* Properties of the match simulator                                        *)

\* Team names a match can carry: the roster and a name outside it
TeamNames == (1..num_teams) \cup {0}

\* C13: a simulator that holds an empty team-strength mapping returns exactly
\* the global base rates (ph, pd, pa) for every home/away pair.
C13_EmptyStrengthsGiveGlobalRates ==
    (ph # None /\ DOMAIN team_strengths = {}) =>
        \A home_team \in TeamNames, away_team \in TeamNames :
            CalculateMatchProbabilities(team_strengths, home_team, away_team,
                                        ph[1], pd[1], pa[1])
                = <<ph[1], pd[1], pa[1]>>

\* C13 witness: a season without strength data whose null model ran over
\* rates that are all positive
C13_Witness ==
    /\ pc = "simulated"
    /\ ~has_ranking_data /\ DOMAIN team_strengths = {}
    /\ num_teams = 2
    /\ Positive(ph[1]) /\ Positive(pd[1]) /\ Positive(pa[1])


----------------------------------------------------------------------------
(* Properties of the run over all seasons                                   *)

Returned == orch_pc = "returned"

\* A run that did not start from a loaded checkpoint
FreshRun == kills = 0 /\ checkpoint_data = None

ResultIds == {results[i].championship_id : i \in 1..Len(results)}

NoSeasonTwice ==
    \A i, j \in 1..Len(results) :
        results[i].championship_id = results[j].championship_id => i = j

\* C14: in each mode (sequential, parallel, batch started fresh), when the
\* pipeline of a season raises, every other season is still analysed and
\* the returned list holds exactly one result for each season whose pipeline
\* ran through without error and none for a season that failed.
C14_OnlyFailedSeasonsAreLeftOut ==
    (Returned /\ FreshRun) =>
        /\ handled = AllIds
        /\ NoSeasonTwice
        /\ ResultIds = AllIds \ skipped


\* C15: the DataError raised for missing required match columns is caught at
\* the orchestration boundary in every mode: it never leaves
\* analyze_all_leagues, and the run goes on to the other seasons.
C15_MissingColumnsNeverEndTheRun ==
    ~df_jogos.columns_ok => orch_pc # "raised"

\* A run asked to resume that loaded no checkpoint: the file was missing or
\* could not be loaded
ResumeWithoutCheckpoint ==
    /\ processing_mode = "batch" /\ resume
    /\ orch_pc # "idle"
    /\ checkpoint_data = None

\* C16: in a batch run asked to resume, a missing or unloadable checkpoint
\* file is a fresh start: no error leaves the call because of it, the set of
\* completed ids and the partial results start empty, and every season is
\* analysed.
C16_UnusableCheckpointIsFreshStart ==
    ResumeWithoutCheckpoint =>
        /\ orch_pc = "raised" => ~df_jogos.columns_ok
        /\ (orch_pc = "running" /\ batch_idx = 0 /\ handled = {}) =>
               completed_ids = {} /\ results = <<>>
        /\ orch_pc \in {"running", "returned"} => championship_ids = IdsNotIn({})
        /\ Returned => handled = AllIds

\* C16 witness: a run that found an unloadable checkpoint file, logged the
\* warning and returned after analysing its three seasons
C16_Witness ==
    /\ ResumeWithoutCheckpoint
    /\ load_failed
    /\ Returned
    /\ Len(df_jogos.seasons) = 3 /\ handled = {1, 2, 3}

\* The checkpoint a resumed run started from
Checkpointed == checkpoint_data[1]

\* C17: a batch run that was interrupted and resumed returns, for every
\* season the checkpoint recorded, the AnalysisResult that was checkpointed
\* (same type, same field values) and one AnalysisResult per season analysed
\* after the resumption; no season of the checkpoint is analysed again and
\* no season appears twice.
C17_ResumedRunReturnsCheckpointedResults ==
    (Returned /\ checkpoint_data # None) =>
        /\ \A i \in 1..Len(results) : results[i].type = "AnalysisResult"
        /\ \A j \in 1..Len(Checkpointed.results) :
               \E i \in 1..Len(results) :
                   results[i] = [Checkpointed.results[j] EXCEPT !.type = "AnalysisResult"]
        /\ handled \cap Checkpointed.completed_ids = {}
        /\ NoSeasonTwice

\* C18: when process_in_batches returns, no checkpoint file is left in the
\* output directory, whether the run started fresh or resumed, and also when
\* no season was left to analyse.
C18_NoCheckpointAfterReturn ==
    (Returned /\ processing_mode = "batch") => checkpoint_file = None

\* C18 witness: a resumed run whose checkpoint already covered every season
\* returned without analysing any
C18_Witness ==
    /\ Returned /\ processing_mode = "batch" /\ output_dir
    /\ checkpoint_data # None
    /\ championship_ids = <<>> /\ handled = {}
    /\ Len(df_jogos.seasons) = 2


----------------------------------------------------------------------------
(* Properties of the reported strength method and of the written series     *)

\* The null model of the season has run
Simulated == pc \in {"simulated", "enveloped", "done", "error"}

Series == round_data[1]

\* C20: the written per-round series has one row per round 1..R, its
\* is_turning_point flag is true on exactly the row of the AnalysisResult's
\* turning-point round (on no row when there is none), and is_competitive is
\* true exactly when the turning-point round is absent.
C20_SeriesFlagsTheResultsTurningPoint ==
    (Done /\ round_data # None) =>
        /\ Len(Series) = total_rounds
        /\ \A i \in 1..Len(Series) :
               /\ Series[i].rodada = i
               /\ Series[i].is_turning_point <=>
                      result[1].turning_point_round = Some(Series[i].rodada)
        /\ result[1].is_competitive <=> result[1].turning_point_round = None

\* C20 witness: a season of ten rounds or more with a turning point after
\* round 1, reported by the result and flagged on that row alone
C20_Witness ==
    /\ Done /\ round_data # None
    /\ total_rounds >= 10
    /\ \E t \in 2..total_rounds :
           /\ result[1].turning_point_round = Some(t)
           /\ ~result[1].is_competitive
           /\ {i \in 1..Len(Series) : Series[i].is_turning_point} = {t}

----------------------------------------------------------------------------
(* The matchday organiser (tournament_matches/matchday)                     *)

\* A row of the match table: the date is 'dd.mm.yyyy' of one year, kept as
\* <<day, month>>
MatchRow(date, home, away) == [date |-> date, home |-> home, away |-> away]

\* parse_date: the day count the datetime orders by
ParseDate(date) == date[2] * 100 + date[1]

\* The order of the date strings themselves, which groupby sorts its keys by
DateKey(date) == date[1] * 100 + date[2]

\* get_tournament_teams
GetTournamentTeams(table) ==
    {table[k].home : k \in 1..Len(table)} \cup {table[k].away : k \in 1..Len(table)}

\* calculate_expected_matches_per_round
CalculateExpectedMatchesPerRound(n_teams) ==
    IF n_teams % 2 = 0 THEN n_teams \div 2 ELSE (n_teams - 1) \div 2

\* sort_values('parsed_date'): rows of one date keep their order
RECURSIVE InsertByParsedDate(_, _)
InsertByParsedDate(sorted, row) ==
    IF sorted = <<>> THEN <<row>>
    ELSE IF ParseDate(sorted[Len(sorted)].date) <= ParseDate(row.date)
         THEN Append(sorted, row)
         ELSE Append(InsertByParsedDate(SubSeq(sorted, 1, Len(sorted) - 1), row),
                     sorted[Len(sorted)])

RECURSIVE SortByParsedDate(_)
SortByParsedDate(table) ==
    IF table = <<>> THEN <<>>
    ELSE InsertByParsedDate(SortByParsedDate(SubSeq(table, 1, Len(table) - 1)),
                            table[Len(table)])

\* groupby('date'): the groups in the order of their keys, each with its rows
\* in table order
RECURSIVE DateGroups(_, _)
DateGroups(table, keys) ==
    IF keys = {} THEN <<>>
    ELSE LET first == CHOOSE d \in keys : \A e \in keys : DateKey(d) <= DateKey(e)
         IN  <<SelectSeq(table, LAMBDA row : row.date = first)>>
                 \o DateGroups(table, keys \ {first})

\* The loop of _select_round_matches from the k-th available match on
RECURSIVE SelectFrom(_, _, _, _, _)
SelectFrom(available_matches, target_count, k, selected_matches, used_teams) ==
    IF k > Len(available_matches) THEN selected_matches
    ELSE IF /\ available_matches[k].home \notin used_teams
            /\ available_matches[k].away \notin used_teams
         THEN IF Len(selected_matches) + 1 >= target_count
              THEN Append(selected_matches, available_matches[k])
              ELSE SelectFrom(available_matches, target_count, k + 1,
                              Append(selected_matches, available_matches[k]),
                              used_teams \cup {available_matches[k].home,
                                               available_matches[k].away})
         ELSE SelectFrom(available_matches, target_count, k + 1,
                         selected_matches, used_teams)

\* _select_round_matches
SelectRoundMatches(available_matches, target_count) ==
    IF available_matches = <<>> THEN <<>>
    ELSE SelectFrom(available_matches, target_count, 1, <<>>, {})

\* list.remove: the first equal element goes
RECURSIVE RemoveMatch(_, _)
RemoveMatch(matches_list, match) ==
    IF matches_list = <<>> THEN <<>>
    ELSE IF Head(matches_list) = match THEN Tail(matches_list)
         ELSE <<Head(matches_list)>> \o RemoveMatch(Tail(matches_list), match)

RECURSIVE RemoveMatches(_, _)
RemoveMatches(matches_list, round_matches) ==
    IF round_matches = <<>> THEN matches_list
    ELSE RemoveMatches(RemoveMatch(matches_list, Head(round_matches)),
                       Tail(round_matches))

WithRound(matches_list, round) ==
    [k \in 1..Len(matches_list) |->
        [date |-> matches_list[k].date, home |-> matches_list[k].home,
         away |-> matches_list[k].away, round |-> round]]

\* The while loop over the matches of one date: the rounds formed, the
\* counter after them and the matches left unassigned
RECURSIVE OrganizeDate(_, _, _, _)
OrganizeDate(matches_list, matches_per_round, counter, assigned) ==
    IF matches_list = <<>>
    THEN [rounds |-> assigned, current_round |-> counter, unassigned |-> <<>>]
    ELSE Let(SelectRoundMatches(matches_list, matches_per_round),
             LAMBDA round_matches :
                 IF round_matches = <<>>
                 THEN [rounds |-> assigned, current_round |-> counter,
                       unassigned |-> matches_list]
                 ELSE OrganizeDate(RemoveMatches(matches_list, round_matches),
                                   matches_per_round, counter + 1,
                                   assigned \o WithRound(round_matches, counter)))

\* The for loop over the date groups
RECURSIVE OrganizeDates(_, _, _, _, _)
OrganizeDates(date_groups, matches_per_round, counter, assigned, unassigned_matches) ==
    IF date_groups = <<>>
    THEN [rounds |-> assigned \o WithRound(unassigned_matches, -1),
          current_round |-> counter]
    ELSE Let(OrganizeDate(Head(date_groups), matches_per_round, counter, assigned),
             LAMBDA day :
                 OrganizeDates(Tail(date_groups), matches_per_round,
                               day.current_round, day.rounds,
                               unassigned_matches \o day.unassigned))

\* organize_tournament_rounds on the rows of one tournament
OrganizeTournamentRounds(tournament_matches) ==
    OrganizeDates(
        Let(SortByParsedDate(tournament_matches),
            LAMBDA sorted : DateGroups(sorted, {sorted[k].date : k \in 1..Len(sorted)})),
        CalculateExpectedMatchesPerRound(Cardinality(GetTournamentTeams(tournament_matches))),
        1, <<>>, <<>>)

\* The call: the table comes back with its round column
Organize ==
    /\ sched_pc = "matchday"
    /\ \E organized \in {OrganizeTournamentRounds(season_df)} :
           /\ assigned_rounds' = organized.rounds
           /\ current_round' = organized.current_round
    /\ sched_pc' = "organized"
    /\ UNCHANGED <<analyser, season_games, rankings_df, settings, config, orch,
                   season_df, future_to_champ, max_workers, last_call>>

MaxMatches == 3
MatchdayClubs == 1..4
MatchDates == {<<1, 2>>, <<15, 1>>}

MatchRows ==
    {row \in [date : MatchDates, home : MatchdayClubs, away : MatchdayClubs] :
        row.home # row.away}

\* A tool at rest next to an analyser that was never built
NoAnalysis ==
    /\ Unconstructed
    /\ NoOrchestrator
    /\ season_games = <<>> /\ rankings_df = None
    /\ use_dynamic_strengths = FALSE
    /\ current_season_weight = Rat(1, 2)
    /\ num_simulations = NumSimulations

\* Tournaments of up to MaxMatches matches among four clubs on two dates
InitMatchday ==
    /\ NoAnalysis
    /\ \E n \in 0..MaxMatches : season_df \in [1..n -> MatchRows]
    /\ assigned_rounds = <<>> /\ current_round = 1 /\ sched_pc = "matchday"
    /\ future_to_champ = <<>> /\ max_workers = 0 /\ last_call = None

NextMatchday == Organize

SpecMatchday == InitMatchday /\ [][NextMatchday]_vars

----------------------------------------------------------------------------
(* Properties of the matchday organiser                                     *)

Organized == sched_pc = "organized"

RoundNumbers == {assigned_rounds[k].round : k \in 1..Len(assigned_rounds)}

MatchesOfRound(r) == {k \in 1..Len(assigned_rounds) : assigned_rounds[k].round = r}

TeamsOfMatch(k) == {assigned_rounds[k].home, assigned_rounds[k].away}

NoTeamTwiceIn(r) ==
    \A k \in MatchesOfRound(r), l \in MatchesOfRound(r) :
        k # l => TeamsOfMatch(k) \cap TeamsOfMatch(l) = {}

FullRound == CalculateExpectedMatchesPerRound(Cardinality(GetTournamentTeams(season_df)))

\* C21 as stated: every assigned round holds N/2 matches (N even) or (N-1)/2
\* matches (N odd), and no team appears in two matches of one round.
C21_EveryRoundIsFull ==
    Organized =>
        \A r \in RoundNumbers \ {-1} :
            /\ Cardinality(MatchesOfRound(r)) = FullRound
            /\ NoTeamTwiceIn(r)

\* What the organiser does ensure: every match is assigned; the rounds are
\* numbered 1, 2, ... without gaps; a round holds matches of one date only,
\* at least one and at most N/2 resp. (N-1)/2 of them (one when that is
\* zero); no team appears in two matches of one round.
RoundsAreConflictFreeAndAtMostFull ==
    Organized =>
        /\ Len(assigned_rounds) = Len(season_df)
        /\ RoundNumbers = 1..(current_round - 1)
        /\ \A r \in RoundNumbers :
               /\ Cardinality(MatchesOfRound(r)) >= 1
               /\ Cardinality(MatchesOfRound(r)) <= (IF FullRound < 1 THEN 1 ELSE FullRound)
               /\ Cardinality({assigned_rounds[k].date : k \in MatchesOfRound(r)}) = 1
               /\ NoTeamTwiceIn(r)

----------------------------------------------------------------------------
(* The round generator (rodadas/generate_rodadas_v4.py)                     *)

\* A row of the season's table
GameRow(date_number, date, home, away) ==
    [date_number |-> date_number, date |-> date, home |-> home, away |-> away]

\* The sort key (date number, date): numbers first, then the date strings
KeyAtMost(x, y) ==
    \/ x.date_number < y.date_number
    \/ x.date_number = y.date_number /\ DateKey(x.date) <= DateKey(y.date)

\* sort_values(['date number', 'date']) and games.sort(key=...): a row goes
\* behind the rows of smaller key and behind the earlier rows of its own key
RankByKey(table, k) ==
    1 + Cardinality({m \in 1..Len(table) :
                        \/ ~KeyAtMost(table[k], table[m])
                        \/ KeyAtMost(table[m], table[k]) /\ m < k})

SortByKey(table) ==
    [p \in 1..Len(table) |->
        table[CHOOSE k \in 1..Len(table) : RankByKey(table, k) = p]]

\* reset_index(drop=True) and the games list built from iterrows: every game
\* carries the 0-based label of its row
WithIndex(table) ==
    [k \in 1..Len(table) |->
        [index |-> k - 1, home |-> table[k].home, away |-> table[k].away,
         date_number |-> table[k].date_number, date |-> table[k].date]]

\* rounds[label] = value on the 0-based list
SetRound(round_list, label, value) == [round_list EXCEPT ![label + 1] = value]

\* The skip of the outer loop: the first position from i on (0-based) whose
\* round is still 0, len(games) when there is none
FirstOpen(round_list, i) ==
    IF \E p \in i..(Len(round_list) - 1) : round_list[p + 1] = 0
    THEN CHOOSE p \in i..(Len(round_list) - 1) :
             /\ round_list[p + 1] = 0
             /\ \A q \in i..(p - 1) : round_list[q + 1] # 0
    ELSE Len(round_list)

\* The inner loop from position j on, testing the home team only
RECURSIVE FillRoundHomeOnly(_, _, _, _, _, _)
FillRoundHomeOnly(games, round_list, j, teams_in_round, games_in_round, round) ==
    IF j >= Len(games)
    THEN [rounds |-> round_list, games_in_round |-> games_in_round]
    ELSE IF round_list[j + 1] # 0
         THEN FillRoundHomeOnly(games, round_list, j + 1, teams_in_round,
                                games_in_round, round)
         ELSE IF games[j + 1].home \notin teams_in_round
              THEN FillRoundHomeOnly(games,
                       SetRound(round_list, games[j + 1].index, round), j + 1,
                       teams_in_round \cup {games[j + 1].home, games[j + 1].away},
                       Append(games_in_round, j), round)
              ELSE FillRoundHomeOnly(games, round_list, j + 1, teams_in_round,
                                     games_in_round, round)

\* The inner loop from position j on (0-based): the list of rounds after it
\* and the positions it put into the round
RECURSIVE FillRound(_, _, _, _, _, _)
FillRound(games, round_list, j, teams_in_round, games_in_round, round) ==
    IF j >= Len(games)
    THEN [rounds |-> round_list, games_in_round |-> games_in_round]
    ELSE IF round_list[j + 1] # 0
         THEN FillRound(games, round_list, j + 1, teams_in_round,
                        games_in_round, round)
         ELSE IF /\ games[j + 1].home \notin teams_in_round
                 /\ games[j + 1].away \notin teams_in_round
              THEN FillRound(games,
                       SetRound(round_list, games[j + 1].index, round), j + 1,
                       teams_in_round \cup {games[j + 1].home, games[j + 1].away},
                       Append(games_in_round, j), round)
              ELSE FillRound(games, round_list, j + 1, teams_in_round,
                             games_in_round, round)

\* The fallback after a round that took no game: the next open game is forced
\* into the round
ForceNextGame(games, round_list, i, round) ==
    Let(FirstOpen(round_list, i),
        LAMBDA open : IF open < Len(games)
                      THEN SetRound(round_list, games[open + 1].index, round)
                      ELSE round_list)

\* generate_rounds_by_season hands the season over sorted and relabelled;
\* generate_optimized_rounds_for_season builds and sorts its list of games and
\* starts with every round 0.
BeginRounds ==
    /\ sched_pc = "season"
    /\ \E sorted \in {<<>> \o SortByKey(season_df)} :
       \E labelled \in {<<>> \o WithIndex(sorted)} :
       \E games \in {<<>> \o SortByKey(labelled)} :
           season_df' = games
    /\ assigned_rounds' = [k \in 1..Len(season_df) |-> 0]
    /\ current_round' = 1
    /\ sched_pc' = "rounds"
    /\ UNCHANGED <<analyser, season_games, rankings_df, settings, config, orch,
                   future_to_champ, max_workers, last_call>>

\* One pass of the outer loop that starts a round: i runs from 0 to the first
\* open game, the inner loop fills the round, the counter moves on and i goes
\* back to 0.
FormRound ==
    /\ sched_pc = "rounds"
    /\ \E i \in {FirstOpen(assigned_rounds, 0)} :
           /\ i < Len(season_df)
           /\ \E filled \in {FillRound(season_df, assigned_rounds, i, {}, <<>>,
                                       current_round)} :
                  assigned_rounds' =
                      IF filled.games_in_round = <<>>
                      THEN ForceNextGame(season_df, filled.rounds, i, current_round)
                      ELSE filled.rounds
    /\ current_round' = current_round + 1
    /\ UNCHANGED <<analyser, season_games, rankings_df, settings, config, orch,
                   season_df, sched_pc, future_to_champ, max_workers, last_call>>

\* The outer loop ends when i has run past every game
ReturnRounds ==
    /\ sched_pc = "rounds"
    /\ FirstOpen(assigned_rounds, 0) >= Len(season_df)
    /\ sched_pc' = "returned"
    /\ UNCHANGED <<analyser, season_games, rankings_df, settings, config, orch,
                   season_df, assigned_rounds, current_round, future_to_champ,
                   max_workers, last_call>>

MaxGames == 3
GameKeys == {<<1, <<15, 1>>>>, <<1, <<1, 2>>>>, <<2, <<1, 2>>>>}

GameRows ==
    {GameRow(key[1], key[2], pair[1], pair[2]) :
        key \in GameKeys,
        pair \in {q \in MatchdayClubs \X MatchdayClubs : q[1] < q[2]}}

\* Seasons of up to MaxGames games among four clubs, in any row order; the
\* club named first in a pairing is the home team
InitRodadas ==
    /\ NoAnalysis
    /\ \E n \in 0..MaxGames : season_df \in [1..n -> GameRows]
    /\ assigned_rounds = <<>> /\ current_round = 0 /\ sched_pc = "season"
    /\ future_to_champ = <<>> /\ max_workers = 0 /\ last_call = None

NextRodadas == BeginRounds \/ FormRound \/ ReturnRounds

\* The function runs to its end once it is called
SpecRodadas == InitRodadas /\ [][NextRodadas]_vars /\ WF_vars(NextRodadas)

----------------------------------------------------------------------------
(* Properties of the round generator                                        *)

GamesOfRodada(r) == {k \in 1..Len(assigned_rounds) : assigned_rounds[k] = r}

\* The game a round number belongs to is the row with that label
GameOfLabel(k) == CHOOSE g \in {season_df[m] : m \in 1..Len(season_df)} : g.index = k - 1

ValidRodadas ==
    /\ Len(assigned_rounds) = Len(season_df)
    /\ \A k \in 1..Len(assigned_rounds) : assigned_rounds[k] >= 1
    /\ \A k \in 1..Len(assigned_rounds), l \in 1..Len(assigned_rounds) :
           k # l /\ assigned_rounds[k] = assigned_rounds[l] =>
               {GameOfLabel(k).home, GameOfLabel(k).away}
                   \cap {GameOfLabel(l).home, GameOfLabel(l).away} = {}

\* C22: the generator terminates on every season, and the list it returns
\* gives every game a round number >= 1 such that no team appears in two
\* games of the same round number.
C22_GeneratorTerminatesWithConflictFreeRounds ==
    <>[](sched_pc = "returned" /\ ValidRodadas)

\* A season of three games returned in two rounds, one of them of two games
C22_Witness ==
    /\ sched_pc = "returned"
    /\ Len(season_df) = 3
    /\ Cardinality(GamesOfRodada(1)) = 2
    /\ Cardinality(GamesOfRodada(2)) = 1


----------------------------------------------------------------------------
(* Properties of the checkpoints written between batches                    *)

\* A step that ends a batch
BatchEnds ==
    /\ processing_mode = "batch"
    /\ orch_pc = "running" /\ orch_pc' = "running"
    /\ batch_idx' = batch_idx + batch_size

\* The number of the batch that ends (0-based) and of the last batch
BatchNumber == batch_idx \div batch_size
LastBatchNumber == (Len(championship_ids) - 1) \div batch_size

\* The checkpoint file after the step holds every id recorded as completed
\* and every result of the list, restored ones included
CheckpointHoldsEverything ==
    /\ checkpoint_file' # None
    /\ checkpoint_file'[1].valid
    /\ checkpoint_file'[1].completed_ids = completed_ids'
    /\ checkpoint_file'[1].results =
           [i \in 1..Len(results') |-> [results'[i] EXCEPT !.type = "dict"]]

\* C23: in resumable-batch mode with an output directory, after batch b
\* (0-based) the checkpoint is rewritten if b is a multiple of
\* checkpoint_interval or b is the last batch, and the checkpoint written
\* holds every season id processed so far and every result obtained so far,
\* restored ones included, in fresh and in resumed runs alike.
C23_DueCheckpointHoldsEverything ==
    [][(BatchEnds /\ output_dir
           /\ (BatchNumber % CheckpointInterval = 0 \/ BatchNumber = LastBatchNumber))
          => CheckpointHoldsEverything]_vars

\* The same in the runs that restored nothing from a checkpoint
DueCheckpointHoldsEverythingWhenFresh ==
    [][(BatchEnds /\ output_dir /\ checkpoint_data = None
           /\ (BatchNumber % CheckpointInterval = 0 \/ BatchNumber = LastBatchNumber))
          => CheckpointHoldsEverything]_vars


----------------------------------------------------------------------------
(* The worker pool of the parallel mode                                     *)

\* What _analyze_single_championship returns for a season: None when the
\* round-data file cannot be written or the result cannot be built, the
\* result otherwise
WorkerOutcome(id) ==
    IF \/ output_dir /\ id \in unwritable
       \/ df_jogos.seasons[id].rankings = Some(<<>>)
        THEN "none"
        ELSE "result"

Running == {id \in DOMAIN future_to_champ : future_to_champ[id] = "running"}

ChunkIds == {championship_ids[k] : k \in CurrentSlice}

\* Variant: the loop moves on once the chunk's futures are submitted.
ChunkSubmittedOnly == \A id \in ChunkIds : future_to_champ[id] # "new"

\* The as_completed loop has gone through every future of the chunk
ChunkCollected == \A id \in ChunkIds : id \in handled

\* with ProcessPoolExecutor(...) as executor: the chunk's tasks are submitted
SubmitChunk ==
    /\ orch_pc = "running"
    /\ batch_idx < Len(championship_ids)
    /\ \A id \in ChunkIds : future_to_champ[id] = "new"
    /\ future_to_champ' =
           [id \in DOMAIN future_to_champ |->
               IF id \in ChunkIds THEN "pending" ELSE future_to_champ[id]]
    /\ UNCHANGED <<analyser, season_games, rankings_df, settings, config, orch,
                   season_df, assigned_rounds, current_round, sched_pc,
                   max_workers, last_call>>

\* A free worker of the pool takes a submitted task
WorkerStart ==
    /\ Cardinality(Running) < max_workers
    /\ \E id \in DOMAIN future_to_champ :
           /\ future_to_champ[id] = "pending"
           /\ future_to_champ' = [future_to_champ EXCEPT ![id] = "running"]
    /\ UNCHANGED <<analyser, season_games, rankings_df, settings, config, orch,
                   season_df, assigned_rounds, current_round, sched_pc,
                   max_workers, last_call>>

\* _analyze_single_championship ends in a worker: the season's pipeline has
\* finished or failed
WorkerFinish ==
    /\ \E id \in Running :
           future_to_champ' = [future_to_champ EXCEPT ![id] = WorkerOutcome(id)]
    /\ UNCHANGED <<analyser, season_games, rankings_df, settings, config, orch,
                   season_df, assigned_rounds, current_round, sched_pc,
                   max_workers, last_call>>

\* as_completed yields a finished future; its result is appended unless it
\* is None
Collect ==
    /\ orch_pc = "running"
    /\ \E id \in ChunkIds \ handled :
           /\ future_to_champ[id] \in {"result", "none"}
           /\ handled' = handled \cup {id}
           /\ IF future_to_champ[id] = "result"
                  THEN /\ results' = Append(results,
                                        [type |-> "AnalysisResult",
                                         championship_id |-> id,
                                         fields |-> <<>>])
                       /\ UNCHANGED skipped
                  ELSE /\ skipped' = skipped \cup {id}
                       /\ UNCHANGED results
    /\ UNCHANGED <<analyser, season_games, rankings_df, settings, config, aside,
                   orch_pc, championship_ids, batch_idx, batch_results,
                   completed_ids, checkpoint_file, checkpoint_data, champ_id,
                   load_failed, kills>>

\* The with block is left, memory is collected and the loop goes to the next
\* chunk
ExitPool ==
    /\ orch_pc = "running"
    /\ batch_idx < Len(championship_ids)
    /\ ChunkCollected
    /\ batch_idx' = batch_idx + batch_size
    /\ UNCHANGED <<analyser, season_games, rankings_df, settings, config, aside,
                   orch_pc, championship_ids, handled, batch_results, results,
                   completed_ids, checkpoint_file, checkpoint_data, champ_id,
                   skipped, load_failed, kills>>

MaxWorkers == 2

\* Parallel runs over 1..MaxSeasons seasons in chunks of one or two, with a
\* pool of 1..MaxWorkers workers
InitPool ==
    /\ Unconstructed
    /\ season_games = <<>> /\ rankings_df = None
    /\ use_dynamic_strengths = FALSE
    /\ current_season_weight = Rat(1, 2)
    /\ num_simulations = NumSimulations
    /\ processing_mode = "parallel"
    /\ \E n \in 1..MaxSeasons :
           df_jogos \in [columns_ok : BOOLEAN, seasons : [1..n -> SeasonCatalog]]
    /\ output_dir \in BOOLEAN
    /\ unwritable \in {S \in SUBSET AllIds :
                          Cardinality(S) <= 1 /\ (S # {} => output_dir)}
    /\ resume = FALSE
    /\ batch_size \in {1, 2}
    /\ checkpoint_file = None
    /\ orch_pc = "idle"
    /\ championship_ids = <<>> /\ batch_idx = 0 /\ handled = {}
    /\ batch_results = <<>> /\ results = <<>> /\ completed_ids = {}
    /\ checkpoint_data = None
    /\ champ_id = 0 /\ skipped = {} /\ load_failed = FALSE /\ kills = 0
    /\ season_df = <<>> /\ assigned_rounds = <<>> /\ current_round = 0
    /\ sched_pc = "off" /\ last_call = None
    /\ max_workers \in 1..MaxWorkers
    /\ future_to_champ = [id \in AllIds |-> "new"]

NextPool ==
    \/ AnalyzeAllLeagues
    \/ SubmitChunk
    \/ WorkerStart
    \/ WorkerFinish
    \/ Collect
    \/ ExitPool
    \/ ReturnResults

SpecPool == InitPool /\ [][NextPool]_vars

----------------------------------------------------------------------------
(* Properties of the worker pool                                            *)

\* The chunk (0-based) of the season at position k of the task list
ChunkOf(k) == (k - 1) \div batch_size

Position(id) == CHOOSE k \in 1..Len(championship_ids) : championship_ids[k] = id

Started == {id \in DOMAIN future_to_champ :
               future_to_champ[id] \in {"running", "result", "none"}}

Finished == {id \in DOMAIN future_to_champ :
                future_to_champ[id] \in {"result", "none"}}

\* C24: in parallel mode no season of a later chunk starts before every
\* season of the chunks before it has finished or failed, and at most
\* chunk_size season pipelines are in flight at any time, whatever the
\* interleaving and the completion order of the workers.
C24_ChunksNeverOverlap ==
    /\ \A id \in Started, other \in 1..Len(championship_ids) :
           ChunkOf(other) < ChunkOf(Position(id)) =>
               championship_ids[other] \in Finished
    /\ Cardinality(Running) <= batch_size

\* Two seasons of the first chunk in flight while the third season waits for
\* the second chunk
C24_Witness ==
    /\ orch_pc = "running"
    /\ Len(championship_ids) = 3 /\ batch_size = 2
    /\ Running = {1, 2}
    /\ future_to_champ[3] = "new"

\* The second season finished before the first one, which is still running
PoolFinishesOutOfOrder ==
    /\ orch_pc = "running"
    /\ Len(championship_ids) >= 2
    /\ future_to_champ[1] = "running"
    /\ future_to_champ[2] \in {"result", "none"}


----------------------------------------------------------------------------
(* The reference distribution of the normalizing denominator                *)

MaxRoster == 20
MaxReferenceRound == 6

\* _calculate_theoretical_max_variance is called on an analyser of n_teams
\* teams for round round_num: its arguments, the distribution it built (none
\* on the early return) and the value it returned
TheoreticalMaxVariance ==
    /\ \E n_teams \in 1..MaxRoster, round_num \in 1..MaxReferenceRound :
           last_call' =
               Some([function |-> "_calculate_theoretical_max_variance",
                     num_teams |-> n_teams, round_num |-> round_num,
                     tiers |-> IF n_teams <= 1 THEN None
                               ELSE Some(TwoTierDistribution(n_teams, round_num)),
                     value |-> CalculateTheoreticalMaxVariance(n_teams, round_num)])
    /\ UNCHANGED <<analyser, season_games, rankings_df, settings, config, orch,
                   season_df, assigned_rounds, current_round, sched_pc,
                   future_to_champ, max_workers>>

InitReference ==
    /\ NoAnalysis
    /\ NoAside

NextReference == TheoreticalMaxVariance

SpecReference == InitReference /\ [][NextReference]_vars

----------------------------------------------------------------------------
(* Properties of the reference distribution                                 *)

\* The distribution of the last call, for a roster of two or more
Tiers == last_call[1].tiers[1]

TieredCall == last_call # None /\ last_call[1].num_teams >= 2

\* ceil(0.2 * n) and floor(0.2 * n) on integers
CeilFifth(n) == (n + 4) \div 5
FloorFifth(n) == n \div 5

\* C25 as stated: for every roster size N >= 2 the two-tier reference
\* distribution places exactly ceil(0.2 * N) teams in the dominant tier.
C25_DominantTierIsCeiling ==
    TieredCall => Tiers.dominant_teams = CeilFifth(last_call[1].num_teams)

\* C25 as the code computes it: for every roster size N >= 2 the dominant
\* tier holds max(1, floor(0.2 * N)) teams and the weak tier the other
\* N - max(1, floor(0.2 * N)); the first dominant_teams entries of the
\* distribution carry the dominant share.
C25_DominantTierIsFloorAtLeastOne ==
    TieredCall =>
        Let(last_call[1].num_teams,
            LAMBDA n :
                /\ Tiers.dominant_teams = (IF FloorFifth(n) > 1 THEN FloorFifth(n) ELSE 1)
                /\ Tiers.weak_teams = n - Tiers.dominant_teams
                /\ Len(Tiers.points_dist) = n
                /\ \A i \in 1..n :
                       Tiers.points_dist[i] =
                           Tiers.points_dist[IF i <= Tiers.dominant_teams THEN 1 ELSE n])

\* A roster of 18 for which floor and ceiling differ: three dominant teams
C25_Witness ==
    /\ TieredCall
    /\ last_call[1].num_teams = 18
    /\ Tiers.dominant_teams = 3
    /\ Tiers.weak_teams = 15


----------------------------------------------------------------------------
(* Properties of the rounds after a reported turning point                  *)

\* The round find_turning_point reported in the result
ReportedRound == result[1].turning_point_round[1]

TurningPointReported == Done /\ result[1].turning_point_round # None

\* C26 as stated: whenever find_turning_point reports a turning point at
\* round t, the observed imbalance exceeds the envelope at every round from
\* t through R.
C26_AboveEnvelopeFromTurningPointOn ==
    TurningPointReported =>
        \A i \in ReportedRound..total_rounds : RoundAbove(i)

\* C26 as the scan decides: whenever a turning point is reported at round t,
\* the observed imbalance exceeds the envelope at each of the k rounds
\* t..t+k-1, with t + k <= R, and at no less than 70% (75% with ranking data)
\* of the rounds t..R.
C26_AboveEnvelopeOnWindowAndShare ==
    TurningPointReported =>
        /\ ReportedRound + MinConsecutiveRounds(total_rounds) <= total_rounds
        /\ \A i \in ReportedRound..(ReportedRound + MinConsecutiveRounds(total_rounds) - 1) :
               RoundAbove(i)
        /\ ShareAboveFrom(ReportedRound)

\* A turning point reported although a later round lies on or under the
\* envelope
C26_Witness ==
    /\ TurningPointReported
    /\ \E i \in ReportedRound..total_rounds : ~RoundAbove(i)


----------------------------------------------------------------------------
(* The scoreline sampled for a simulated match                              *)

\* Strength mappings of the two teams of a match, the empty one included
StrengthMaps ==
    {EmptyDict} \cup [{1, 2} -> {Rat(1, 4), Rat(3, 4)}]

\* Global rates (ph, pd, pa) of a season
RateTriples ==
    {<<Rat(1, 2), Rat(1, 4), Rat(1, 4)>>, <<Rat(1, 3), Rat(1, 3), Rat(1, 3)>>,
     <<Rat(1, 1), Rat(0, 1), Rat(0, 1)>>, <<Rat(0, 1), Rat(1, 1), Rat(0, 1)>>,
     <<Rat(0, 1), Rat(0, 1), Rat(1, 1)>>, <<Rat(1, 2), Rat(0, 1), Rat(1, 2)>>}

\* simulate_match_result (and the same draw inside
\* _run_optimized_rankings_simulations): the probabilities are computed, rand
\* falls into the interval of one outcome category, and the two goal counts
\* are drawn independently from the lists of that category.
SimulateMatchResult ==
    /\ \E strengths \in StrengthMaps, rates \in RateTriples :
       \E category \in CategorySupport(strengths, rates[1], rates[2], rates[3]) :
       \E scoreline \in TrialScorelines(FALSE, category) :
           last_call' =
               Some([function |-> "simulate_match_result",
                     team_strengths |-> strengths,
                     probabilities |-> CalculateMatchProbabilities(
                                           strengths, 1, 2, rates[1], rates[2], rates[3]),
                     category |-> category,
                     goal_home |-> scoreline[1], goal_away |-> scoreline[2]])
    /\ UNCHANGED <<analyser, season_games, rankings_df, settings, config, orch,
                   season_df, assigned_rounds, current_round, sched_pc,
                   future_to_champ, max_workers>>

InitScoreline ==
    /\ NoAnalysis
    /\ NoAside

NextScoreline == SimulateMatchResult

SpecScoreline == InitScoreline /\ [][NextScoreline]_vars

----------------------------------------------------------------------------
(* Properties of the sampled scoreline                                      *)

Sampled == last_call # None /\ last_call[1].function = "simulate_match_result"

\* The points the 3/1/0 rule of the curve gives the home and the away team
\* for the sampled scoreline
SampledPoints ==
    IF last_call[1].goal_home > last_call[1].goal_away THEN <<3, 0>>
    ELSE IF last_call[1].goal_home < last_call[1].goal_away THEN <<0, 3>>
    ELSE <<1, 1>>

\* C27: in the strength-based simulators every sampled scoreline is
\* consistent with the outcome category drawn for it under the 3/1/0 rule:
\* home win gives home goals > away goals, draw equal goals, away win away
\* goals > home goals.
C27_ScorelineMatchesCategory ==
    Sampled =>
        SampledPoints = (CASE last_call[1].category = "H" -> <<3, 0>>
                           [] last_call[1].category = "D" -> <<1, 1>>
                           [] last_call[1].category = "A" -> <<0, 3>>)

\* What the lists of the draw do ensure: the winner of the category never
\* loses; the only scoreline off its category is 1-1.
ScorelineOffCategoryIsOneAll ==
    Sampled =>
        \/ C27_ScorelineMatchesCategory
        \/ last_call[1].goal_home = 1 /\ last_call[1].goal_away = 1


----------------------------------------------------------------------------
(* Properties of the ids recorded in a checkpoint                           *)

\* A checkpoint written by the run lies in the output directory
CheckpointWritten == checkpoint_file # None /\ checkpoint_file[1].valid

CheckpointResultIds ==
    {checkpoint_file[1].results[i].championship_id :
        i \in 1..Len(checkpoint_file[1].results)}

\* C28: in every checkpoint written by the resumable-batch mode the set of
\* completed season ids equals the set of season ids that have a partial
\* result in the same checkpoint, so that a season whose analysis failed is
\* not recorded as completed and is analysed again on resume.
C28_CompletedIdsAreTheIdsWithResults ==
    CheckpointWritten =>
        checkpoint_file[1].completed_ids = CheckpointResultIds

\* What the checkpoints do ensure: every season with a partial result is
\* recorded as completed.
IdsWithResultsAreCompleted ==
    CheckpointWritten =>
        CheckpointResultIds \subseteq checkpoint_file[1].completed_ids

\* A season that failed in an interrupted run, was checkpointed as completed
\* and is left out by the resumed run
FailedSeasonNotAnalysedAgain ==
    /\ Returned /\ kills = 1 /\ checkpoint_data # None
    /\ \E id \in Checkpointed.completed_ids :
           /\ id \notin {Checkpointed.results[i].championship_id :
                            i \in 1..Len(Checkpointed.results)}
           /\ id \notin handled


----------------------------------------------------------------------------
(* Properties of the two point accumulations                                *)

\* points_cumulative[i, r] of _calculate_points_progression_optimized on the
\* analysed season
PointsCumulative(i, r) ==
    CumSum(PointsMatrix(season_games, teams, total_rounds)[i], r)

\* C29: for every season the cumulative points per team per round computed
\* by PositionDefinitionCalculator._calculate_points_progression equal those
\* accumulated by _calculate_points_progression_optimized on the same
\* fixtures, for every team and every round 1..R (and both start from 0).
C29_BothAccumulationsAgree ==
    pc = "observed" =>
        \A i \in 1..num_teams :
            /\ Len(points_progression[teams[i]]) = total_rounds + 1
            /\ \A r \in 0..total_rounds :
                   points_progression[teams[i]][r + 1] = PointsCumulative(i, r)

\* A season of three rounds in which some team has won, drawn and lost
C29_Witness ==
    /\ pc = "observed"
    /\ total_rounds = 3
    /\ \E i \in 1..num_teams :
           /\ {PointsCumulative(i, r) - PointsCumulative(i, r - 1) : r \in 1..3} = {0, 1, 3}
           /\ points_progression[teams[i]][4] = 4

----------------------------------------------------------------------------
(* Methods of one analyser called by hand, in and out of order              *)

\* A caller reaches the analyser only between two method calls.
BetweenMethods ==
    pc \in {"constructed", "observed", "simulated", "enveloped", "done", "error"}

ValueErrorOf(method) ==
    Some([function |-> method, raised |-> "ValueError", returned |-> <<>>])

ReturnOf(method, value) ==
    Some([function |-> method, raised |-> "", returned |-> value])

\* Variant: the envelope of an ensemble that does not exist is assigned as a
\* row of zeros before the error is raised.
ConfidenceEnvelopeAssignsThenRaises ==
    /\ BetweenMethods
    /\ simulation_curves = None
    /\ envelope_upper_bound' = Some([r \in 1..total_rounds |-> RInt(0)])
    /\ last_call' = ValueErrorOf("calculate_confidence_envelope")
    /\ UNCHANGED <<inputs, info, pc, observed_imbalance_curve, simulation_curves,
                   ph, pd, pa, sim, result, round_data, config, orch,
                   season_df, assigned_rounds, current_round, sched_pc,
                   future_to_champ, max_workers>>

\* calculate_confidence_envelope while simulation_curves is None: the
\* ValueError of its first statement, before any assignment.
ConfidenceEnvelopeRefused ==
    /\ BetweenMethods
    /\ simulation_curves = None
    /\ last_call' = ValueErrorOf("calculate_confidence_envelope")
    /\ UNCHANGED <<inputs, analyser, config, orch, season_df, assigned_rounds,
                   current_round, sched_pc, future_to_champ, max_workers>>

\* find_turning_point called on its own: the ValueError of its first
\* statement while the curve or the envelope is None, the pair it returns
\* otherwise; it assigns no attribute.
FindTurningPointCall ==
    /\ BetweenMethods
    /\ last_call' =
           IF observed_imbalance_curve = None \/ envelope_upper_bound = None
              THEN ValueErrorOf("find_turning_point")
              ELSE ReturnOf("find_turning_point",
                            FindTurningPoint(observed_imbalance_curve[1],
                                             envelope_upper_bound[1], total_rounds,
                                             has_ranking_data))
    /\ UNCHANGED <<inputs, analyser, config, orch, season_df, assigned_rounds,
                   current_round, sched_pc, future_to_champ, max_workers>>

\* save_round_by_round_data while the curve or the envelope is None: the
\* ValueError of its first statement, before the directory is made.
SaveRoundByRoundDataRefused ==
    /\ BetweenMethods
    /\ observed_imbalance_curve = None \/ envelope_upper_bound = None
    /\ last_call' = ValueErrorOf("save_round_by_round_data")
    /\ UNCHANGED <<inputs, analyser, config, orch, season_df, assigned_rounds,
                   current_round, sched_pc, future_to_champ, max_workers>>

\* get_analysis_result while the curve or the envelope is None: its first
\* statement calls find_turning_point, whose ValueError it lets through.
GetAnalysisResultRefused ==
    /\ BetweenMethods
    /\ observed_imbalance_curve = None \/ envelope_upper_bound = None
    /\ last_call' = ValueErrorOf("get_analysis_result")
    /\ UNCHANGED <<inputs, analyser, config, orch, season_df, assigned_rounds,
                   current_round, sched_pc, future_to_champ, max_workers>>

\* Two-team seasons of three rounds with every result of every match, with
\* and without the table of the season before.
InitSteps ==
    /\ NoAside
    /\ Unconstructed
    /\ NoOrchestrator
    /\ season_games \in SeasonsOver(Fixtures(2, 3), ResultScorelines)
    /\ rankings_df \in {None, Some(PreviousTable)}
    /\ use_dynamic_strengths = FALSE
    /\ current_season_weight = Rat(1, 2)
    /\ num_simulations = NumSimulations

NextSteps ==
    \/ Construct
    \/ CalculateObservedImbalance
    \/ RunNullModelOptimized
    \/ RunTrial
    \/ ConfidenceEnvelope
    \/ SaveRoundByRoundData
    \/ GetAnalysisResult
    \/ ConfidenceEnvelopeRefused
    \/ FindTurningPointCall
    \/ SaveRoundByRoundDataRefused
    \/ GetAnalysisResultRefused

SpecSteps == InitSteps /\ [][NextSteps]_vars

\* The step is a call of the method made by hand.
CalledByHand(method) ==
    /\ last_call' # last_call
    /\ last_call' # None
    /\ last_call'[1].function = method

\* The call of the step ended in a ValueError and the analyser, its inputs
\* and its settings are as they were before the call.
RefusedWithNothingChanged ==
    /\ last_call'[1].raised = "ValueError"
    /\ UNCHANGED <<inputs, analyser>>

AllStepsHaveRun ==
    /\ pc \in {"enveloped", "done", "error"}
    /\ observed_imbalance_curve # None
    /\ simulation_curves # None
    /\ envelope_upper_bound # None

\* C30: calculate_confidence_envelope called while there is no ensemble, and
\* find_turning_point, save_round_by_round_data or get_analysis_result called
\* while the observed curve or the envelope is missing, end in a ValueError
\* and leave every attribute of the analyser as it was; and once the curve,
\* the ensemble and the envelope were computed in order, no later step (a
\* call of find_turning_point, save_round_by_round_data or
\* get_analysis_result) changes any of the three.
C30_OutOfOrderCallsFailAndArtifactsAreReadOnly ==
    [][/\ (CalledByHand("calculate_confidence_envelope") /\ simulation_curves = None)
            => RefusedWithNothingChanged
       /\ \A method \in {"find_turning_point", "save_round_by_round_data",
                         "get_analysis_result"} :
            (/\ CalledByHand(method)
             /\ observed_imbalance_curve = None \/ envelope_upper_bound = None)
                => RefusedWithNothingChanged
       /\ AllStepsHaveRun
            => UNCHANGED <<observed_imbalance_curve, simulation_curves,
                           envelope_upper_bound>>]_vars

\* The result was assembled and the file of rounds written after all steps
\* ran in order, on an analyser whose last out-of-order call was refused
\* before the envelope existed, and a turning point was then read by hand.
ReadByHandAfterAllSteps ==
    /\ pc = "done"
    /\ round_data # None
    /\ result # None
    /\ last_call # None
    /\ last_call[1].function = "find_turning_point"
    /\ last_call[1].raised = ""

\* Some call was refused while the observed curve existed and the envelope
\* did not.
C30_Witness ==
    /\ pc = "simulated"
    /\ last_call # None
    /\ last_call[1].raised = "ValueError"
    /\ last_call[1].function = "get_analysis_result"

============================================================================
